---- MODULE Spec2Model ----
(***************************************************************************)
(* Model of the Paxos ProposerManager (paxos package) of the server: the   *)
(* proposers and proposals maps, the admission of received transactions,   *)
(* the routing of 1B/2B/TGC/TSA messages and the topology subscription.    *)
(***************************************************************************)
EXTENDS Integers, Sequences, FiniteSets, TLC

(* ---------------------------------------------------------------------- *)
(* Bounds of the model                                                     *)
(* ---------------------------------------------------------------------- *)
MaxLive         == 2   \* started and unfinished proposal objects of one instance
MaxOutcomes     == 1   \* outcomes delivered to one Proposer
MaxSent         == 2   \* one-shot messages sent
MaxCalls        == 2   \* TopologyChanged calls
MaxActions         == 2   \* local actions of the Txn
MaxOutcomeCalls    == 2   \* BallotOutcomeReceived calls made on the Txn
MaxCompletionCalls == 2   \* CompletionReceived calls made on the Txn
MaxAllocations     == 3   \* Allocations of a txn handed to GetAcceptorsFromTxn
MaxFInc            == 3   \* fInc of a txn handed to GetAcceptorsFromTxn
MaxFeeds           == 2   \* copies of the outcome delivered to one Proposer
MaxOneBs           == 1   \* 1B messages delivered to the RMs of the cluster
MaxKeyRows         == 2   \* selected rows whose keys HideEmpty counts
MaxRows            == 4   \* selected rows of the row view
MaxHeight          == 3   \* height of the row view

(* ---------------------------------------------------------------------- *)
(* The universe of inputs                                                  *)
(* ---------------------------------------------------------------------- *)
RMId       == 1        \* pm.RMId: this resource manager
BootCount  == 2        \* pm.BootCount: this process' epoch
StaleBoot  == BootCount - 1   \* an Active boot count of an older run of this RM
OtherRMs   == {2, 3}
RMIds      == {RMId} \cup OtherRMs
RoutedSenders == {2}   \* senders of the messages the manager only routes
TxnIds     == {1}
NoAlloc    == [IsNil |-> TRUE]   \* a nil *msgs.Allocation
NoTopology == [IsNil |-> TRUE]   \* a nil *configuration.Topology

Commit        == "Commit"
AbortDeadlock == "AbortDeadlock"
Outcomes      == {"Commit", "Abort"}

ProposerActiveVoter    == "ActiveVoter"
ProposerActiveLearner  == "ActiveLearner"
ProposerPassiveLearner == "PassiveLearner"

Allocation(rm, active, idxs) == [RmId |-> rm, Active |-> active, ActionIndices |-> idxs]

\* The allocation lists a txn body can carry: this RM as a current voter, as
\* a voter of an older boot, as a passive learner, and not at all.
AllocVoter   == << Allocation(RMId, BootCount, <<1, 2>>), Allocation(2, 1, <<3>>), Allocation(3, 0, << >>) >>
AllocStale   == << Allocation(2, 1, <<1>>), Allocation(RMId, StaleBoot, <<2>>), Allocation(3, 1, <<3>>) >>
AllocPassive == << Allocation(2, 1, <<1, 2>>), Allocation(3, 0, <<3>>), Allocation(RMId, 0, << >>) >>
AllocAbsent  == << Allocation(2, 1, <<1, 2>>), Allocation(3, 0, <<3>>) >>

\* a txn body (msgs.Txn): topology version, fInc, allocations, and the
\* variable of each of its three actions
TxnBody(version, allocs) ==
  [ TopologyVersion |-> version, FInc |-> 2, Allocations |-> allocs,
    Actions |-> <<"x", "y", "z">> ]

TxnBodies ==
  { TxnBody(1, AllocVoter), TxnBody(2, AllocVoter), TxnBody(2, AllocStale),
    TxnBody(2, AllocPassive), TxnBody(2, AllocAbsent) }

\* configuration.Topology: Version, Next (nil or the next topology), RMsRemoved
Topologies ==
  { [Version |-> 1, Next |-> [Version |-> 2], RMsRemoved |-> {2}],
    [Version |-> 2, Next |-> NoTopology,     RMsRemoved |-> {2}] }

VARIABLES
  txns,          \* the body of each TxnId (fixed once chosen)
  proposers,     \* pm.proposers: TxnId -> Proposer
  proposals,     \* pm.proposals: instanceIdPrefix -> proposal
  live,          \* per instance: the proposal objects started and not finished
  topology,      \* pm.topology
  sent,          \* messages handed to one-shot senders
  crashed,       \* the process has panicked
  last,          \* the handler that ran last, with the calls it made in order
  exeQueue,      \* the Executor's task queue (ids of TopologyChanged calls)
  running,       \* the TopologyChanged task the Executor is inside, or 0
  terminated,    \* the Executor has terminated
  calls,         \* per TopologyChanged call: its argument, channel, watcher, dones
  localTxn,      \* one Txn of the transaction engine, with its executor and variables
  computed,      \* a txn's acceptors as each of two proposers computed them
  cluster,       \* the Txn of one TxnId at every RM, and what its acceptors decided
  gui            \* the debugger's gui: its columns and its view of the rows

pmVars == << txns, proposers, proposals, live, topology,
             sent, crashed, last, exeQueue, running, terminated, calls, computed, cluster, gui >>
vars == << txns, proposers, proposals, live, topology,
           sent, crashed, last, exeQueue, running, terminated, calls, localTxn, computed, cluster, gui >>
topoVars == << exeQueue, running, terminated, calls >>

(* ---------------------------------------------------------------------- *)
(* Helpers                                                                 *)
(* ---------------------------------------------------------------------- *)
Put(f, k, v)  == [x \in (DOMAIN f) \cup {k} |-> IF x = k THEN v ELSE f[x]]
Remove(f, k)  == [x \in (DOMAIN f) \ {k} |-> f[x]]
EmptyMap      == [x \in {} |-> 0]

\* binary.BigEndian.PutUint32
BigEndianPutUint32(n) ==
  << (n \div 16777216) % 256, (n \div 65536) % 256, (n \div 256) % 256, n % 256 >>

\* the instanceIdPrefix of (txnId, rmId): the TxnId bytes followed by the
\* big-endian RM id
InstId(txnId, rmId) == <<txnId>> \o BigEndianPutUint32(rmId)

InstIds == { InstId(t, rm) : t \in TxnIds, rm \in RMIds }

\* eng.TxnReader of a TxnId: the id and the body
TxnReader(txnId) == [Id |-> txnId, Txn |-> txns[txnId]]

RECURSIVE FirstAlloc(_, _, _)
FirstAlloc(allocs, rmId, idx) ==
  IF idx > Len(allocs) THEN NoAlloc
  ELSE IF allocs[idx].RmId = rmId THEN allocs[idx]
  ELSE FirstAlloc(allocs, rmId, idx + 1)

AllocForRMId(txnCap, rmId) == FirstAlloc(txnCap.Allocations, rmId, 1)

Ballot(vUUId, vote) == [VarUUId |-> vUUId, Vote |-> vote]

\* MakeAbortBallots voting Commit for each action
MakeAbortBallots_Commit(txn, alloc) ==
  IF alloc = NoAlloc THEN [panic |-> TRUE, ballots |-> << >>]
  ELSE [ panic |-> FALSE,
         ballots |-> [ idx \in 1..Len(alloc.ActionIndices) |->
                         Ballot(txn.Txn.Actions[alloc.ActionIndices[idx]], Commit) ] ]

\* a nil alloc is dereferenced by alloc.ActionIndices(): a runtime panic
MakeAbortBallots(txn, alloc) ==
  IF alloc = NoAlloc THEN [panic |-> TRUE, ballots |-> << >>]
  ELSE [ panic |-> FALSE,
         ballots |-> [ idx \in 1..Len(alloc.ActionIndices) |->
                         Ballot(txn.Txn.Actions[alloc.ActionIndices[idx]], AbortDeadlock) ] ]

\* the loop of GetAcceptorsFromTxn: idx runs while idx < l && idx < twoFInc
RECURSIVE AcceptorsLoop(_, _, _, _)
AcceptorsLoop(allocations, twoFInc, idx, acceptors) ==
  IF idx < Len(allocations) /\ idx < twoFInc
  THEN AcceptorsLoop(allocations, twoFInc, idx + 1, Append(acceptors, allocations[idx + 1].RmId))
  ELSE acceptors

\* GetAcceptorsFromTxn truncating to 2 * fInc entries
GetAcceptorsFromTxn_TwoFInc(txnCap) ==
  LET fInc    == txnCap.FInc
      twoFInc == fInc + fInc
  IN  AcceptorsLoop(txnCap.Allocations, twoFInc, 0, << >>)

GetAcceptorsFromTxn(txnCap) ==
  LET fInc    == txnCap.FInc
      twoFInc == fInc + fInc - 1
  IN  AcceptorsLoop(txnCap.Allocations, twoFInc, 0, << >>)

\* the acceptors nobody has computed yet
NotComputed == << 0 >>

\* no txn handed to GetAcceptorsFromTxn
NoComputed == [ txnCap |-> TxnBody(0, << >>), acceptors |-> [ p \in {1, 2} |-> NotComputed ] ]

MakeTxnLocallyCompleteMsg(txnId) == [Type |-> "TxnLocallyComplete", TxnId |-> txnId]

\* NewOneShotSender addressing this RM instead of the recipient
NewOneShotSender_ToSelf(s, msg, recipient) ==
  [s EXCEPT !.sent = Append(@, [Msg |-> msg, To |-> RMId]),
            !.events = Append(@, "OneShotSender")]

\* NewOneShotSender(msg, pm, recipient)
NewOneShotSender(s, msg, recipient) ==
  [s EXCEPT !.sent = Append(@, [Msg |-> msg, To |-> recipient]),
            !.events = Append(@, "OneShotSender")]

(* ---------------------------------------------------------------------- *)
(* The manager's state as one value, so that a handler is the composition  *)
(* of the calls it makes                                                   *)
(* ---------------------------------------------------------------------- *)
Cur ==
  [ proposers |-> proposers, proposals |-> proposals, live |-> live,
    topology |-> topology, sent |-> sent, crashed |-> crashed, events |-> << >> ]

Crash(s) == [s EXCEPT !.crashed = TRUE, !.events = Append(@, "panic")]

Event(s, e) == [s EXCEPT !.events = Append(@, e)]

(* ---------------------------------------------------------------------- *)
(* Proposal and Proposer objects (proposal.go and proposer.go)             *)
(* ---------------------------------------------------------------------- *)
NewProposal(txn, fInc, ballots, rmId, acceptors, skipPhase1) ==
  [ txnId |-> txn.Id, rmId |-> rmId, fInc |-> fInc, ballots |-> ballots,
    acceptors |-> acceptors, skipPhase1 |-> skipPhase1, started |-> FALSE,
    abortInstances |-> << >> ]

\* prop.Start(): the instance begins to run
ProposalStart(s, instId) ==
  [s EXCEPT !.proposals[instId].started = TRUE,
            !.live[instId] = @ + 1,
            !.events = Append(@, "ProposalStart")]

\* prop.FinishProposing() on a proposal just removed from the map: the
\* instance stops; its abortInstances are what the call returns
ProposalFinishProposing(s, instId) ==
  [s EXCEPT !.live[instId] = @ - 1,
            !.events = Append(@, "FinishProposing")]

NewProposer(txn, mode, topo) ==
  [ txnId |-> txn.Id, mode |-> mode, topology |-> topo, started |-> FALSE,
    outcomes |-> << >>, ballotsComplete |-> FALSE, outcomeKnown |-> FALSE ]

ProposerStart(proposer) == [proposer EXCEPT !.started = TRUE]

\* the Proposer collects the outcomes it is handed, in order
ProposerBallotOutcomeReceived(proposer, sender, outcome) ==
  [proposer EXCEPT !.outcomes = Append(@, outcome)]

ProposerTopologyChange(proposer, topo) == [proposer EXCEPT !.topology = topo]

\* pm.proposers[*txnId] = NewProposer(pm, txn, mode, pm.topology); proposer.Start()
InstallProposer(s, txn, mode) ==
  LET proposer == NewProposer(txn, mode, s.topology)
  IN  [s EXCEPT !.proposers = Put(@, txn.Id, ProposerStart(proposer)),
                !.events = @ \o <<"NewProposer", "ProposerStart">>]

\* the outcome is logged but never handed to the Proposer
DeliverOutcome_Dropped(s, txnId, sender, outcome) ==
  Event(s, "BallotOutcomeReceived")

DeliverOutcome(s, txnId, sender, outcome) ==
  [s EXCEPT !.proposers[txnId] = ProposerBallotOutcomeReceived(@, sender, outcome),
            !.events = Append(@, "BallotOutcomeReceived")]

(* ---------------------------------------------------------------------- *)
(* ProposerManager operations                                              *)
(* ---------------------------------------------------------------------- *)
\* NewPaxosProposals without the lookup: the map entry is overwritten
NewPaxosProposals_NoLookup(s, txn, fInc, ballots, acceptors, rmId, skipPhase1) ==
  LET instId == InstId(txn.Id, rmId)
      prop   == NewProposal(txn, fInc, ballots, rmId, acceptors, skipPhase1)
  IN  ProposalStart([s EXCEPT !.proposals = Put(@, instId, prop),
                              !.events = Append(@, "NewProposal")],
                    instId)

NewPaxosProposals(s, txn, fInc, ballots, acceptors, rmId, skipPhase1) ==
  LET instId == InstId(txn.Id, rmId)
  IN  IF instId \notin DOMAIN s.proposals
      THEN LET prop == NewProposal(txn, fInc, ballots, rmId, acceptors, skipPhase1)
           IN  ProposalStart([s EXCEPT !.proposals = Put(@, instId, prop),
                                       !.events = Append(@, "NewProposal")],
                             instId)
      ELSE s

\* prop.AddBallots(ballots): a ballot for a variable the proposal has no
\* ballot for yet is merged in
RECURSIVE ProposalAddBallots(_, _, _)
ProposalAddBallots(have, ballots, idx) ==
  IF idx > Len(ballots) THEN have
  ELSE IF \E k \in 1..Len(have) : have[k].VarUUId = ballots[idx].VarUUId
       THEN ProposalAddBallots(have, ballots, idx + 1)
       ELSE ProposalAddBallots(Append(have, ballots[idx]), ballots, idx + 1)

\* AddToPaxosProposals: an unknown instance is logged and nothing else
AddToPaxosProposals(s, txnId, ballots, rmId) ==
  LET instId == InstId(txnId, rmId)
  IN  IF instId \in DOMAIN s.proposals
      THEN [s EXCEPT !.proposals[instId].ballots = ProposalAddBallots(@, ballots, 1),
                     !.events = Append(@, "AddBallots")]
      ELSE Event(s, "log")

\* the accept computation without the RMsRemoved test
AcceptTxn_IgnoresRemoved(topo, sender, txnCap) ==
  LET versionOk ==
        \/ (topo.Next = NoTopology /\ topo.Version = txnCap.TopologyVersion)
        \/ (topo.Next # NoTopology /\ topo.Next.Version = txnCap.TopologyVersion)
      alloc == FirstAlloc(txnCap.Allocations, RMId, 1)
  IN  IF versionOk
      THEN IF alloc # NoAlloc THEN alloc.Active = BootCount ELSE FALSE
      ELSE FALSE

\* the accept computation of TxnReceived when pm.topology != nil
AcceptTxn(topo, sender, txnCap) ==
  LET versionOk ==
        \/ (topo.Next = NoTopology /\ topo.Version = txnCap.TopologyVersion)
        \/ (topo.Next # NoTopology /\ topo.Next.Version = txnCap.TopologyVersion)
      alloc == FirstAlloc(txnCap.Allocations, RMId, 1)
  IN  IF versionOk
      THEN IF sender \notin topo.RMsRemoved
           THEN IF alloc # NoAlloc THEN alloc.Active = BootCount ELSE FALSE
           ELSE FALSE
      ELSE FALSE

\* TxnReceived that does not look for an existing Proposer
TxnReceived_NoLookup(s, sender, txn) ==
  LET txnCap == txn.Txn
      accept == IF s.topology # NoTopology
                THEN AcceptTxn(s.topology, sender, txnCap)
                ELSE TRUE
  IN  IF accept
      THEN InstallProposer(s, txn, ProposerActiveVoter)
      ELSE LET ballots == MakeAbortBallots(txn, AllocForRMId(txnCap, RMId))
           IN  IF ballots.panic THEN Crash(s)
               ELSE InstallProposer(
                      NewPaxosProposals(s, txn, txnCap.FInc, ballots.ballots,
                                        GetAcceptorsFromTxn(txnCap), RMId, TRUE),
                      txn, ProposerActiveLearner)

TxnReceived(s, sender, txn) ==
  LET txnId  == txn.Id
      txnCap == txn.Txn
  IN  IF txnId \notin DOMAIN s.proposers
      THEN LET accept == IF s.topology # NoTopology
                         THEN AcceptTxn(s.topology, sender, txnCap)
                         ELSE TRUE
           IN  IF accept
               THEN InstallProposer(s, txn, ProposerActiveVoter)
               ELSE LET acceptors == GetAcceptorsFromTxn(txnCap)
                        fInc      == txnCap.FInc
                        alloc     == AllocForRMId(txnCap, RMId)
                        ballots   == MakeAbortBallots(txn, alloc)
                    IN  IF ballots.panic THEN Crash(s)
                        ELSE InstallProposer(
                               NewPaxosProposals(s, txn, fInc, ballots.ballots, acceptors, RMId, TRUE),
                               txn, ProposerActiveLearner)
      ELSE s

\* a 1B without a proposal treated as an error
OneBTxnVotesReceived_Strict(s, sender, txnId, oneBRmId) ==
  LET instId == InstId(txnId, oneBRmId)
  IN  IF instId \in DOMAIN s.proposals
      THEN Event(s, "prop.OneBTxnVotesReceived")
      ELSE Crash(s)

OneBTxnVotesReceived(s, sender, txnId, oneBRmId) ==
  LET instId == InstId(txnId, oneBRmId)
  IN  IF instId \in DOMAIN s.proposals
      THEN Event(s, "prop.OneBTxnVotesReceived")
      ELSE s

TwoBFailuresReceived(s, sender, txnId, failuresRmId) ==
  LET instId == InstId(txnId, failuresRmId)
  IN  IF instId \in DOMAIN s.proposals
      THEN Event(s, "prop.TwoBFailuresReceived")
      ELSE s

\* the TWOBTXNVOTES_OUTCOME case of TwoBTxnVotesReceived
TwoBOutcomeReceived(s, sender, txnId, txn, outcome) ==
  IF txnId \in DOMAIN s.proposers
  THEN DeliverOutcome(s, txnId, sender, outcome)
  ELSE LET txnCap == txn.Txn
           alloc  == AllocForRMId(txnCap, RMId)
       IN  IF alloc = NoAlloc THEN Crash(s)   \* alloc.Active() on a nil alloc
           ELSE IF alloc.Active # 0
           THEN LET acceptors == GetAcceptorsFromTxn(txnCap)
                    fInc      == txnCap.FInc
                    ballots   == MakeAbortBallots(txn, alloc)
                    s1 == NewPaxosProposals(s, txn, fInc, ballots.ballots, acceptors, RMId, FALSE)
                    s2 == InstallProposer(s1, txn, ProposerActiveLearner)
                IN  DeliverOutcome(s2, txnId, sender, outcome)
           ELSE IF outcome = "Commit"
                THEN DeliverOutcome(InstallProposer(s, txn, ProposerPassiveLearner),
                                    txnId, sender, outcome)
                ELSE NewOneShotSender(s, MakeTxnLocallyCompleteMsg(txnId), sender)

TxnGloballyCompleteReceived(s, sender, txnId) ==
  IF txnId \in DOMAIN s.proposers
  THEN Event(s, "proposer.TxnGloballyCompleteReceived")
  ELSE s

TxnSubmissionAbortReceived(s, sender, txnId) ==
  IF txnId \in DOMAIN s.proposers
  THEN Event(s, "proposer.Abort")
  ELSE s

TxnFinished(s, txnId) == [s EXCEPT !.proposers = Remove(@, txnId)]

\* the loop of FinishProposers over the abort instances prop.FinishProposing() returned
RECURSIVE FinishAbortInstances(_, _, _, _)
FinishAbortInstances(s, txnId, abortInstances, idx) ==
  IF idx > Len(abortInstances) THEN s
  ELSE LET instId == InstId(txnId, abortInstances[idx])
           s1 == IF instId \in DOMAIN s.proposals
                 THEN ProposalFinishProposing([s EXCEPT !.proposals = Remove(@, instId)], instId)
                 ELSE s
       IN  FinishAbortInstances(s1, txnId, abortInstances, idx + 1)

FinishProposers(s, txnId) ==
  LET instId == InstId(txnId, RMId)
  IN  IF instId \in DOMAIN s.proposals
      THEN LET s1 == ProposalFinishProposing([s EXCEPT !.proposals = Remove(@, instId)], instId)
           IN  FinishAbortInstances(s1, txnId, s.proposals[instId].abortInstances, 1)
      ELSE s

\* the task storing the topology without telling the Proposers
TopologyTask_SkipsProposers(s, topo) ==
  [s EXCEPT !.topology = topo]

\* the task TopologyChanged enqueues, up to close(resultChan)
TopologyTask(s, topo) ==
  [s EXCEPT !.topology = topo,
            !.proposers = [t \in DOMAIN s.proposers |-> ProposerTopologyChange(s.proposers[t], topo)]]

(* ---------------------------------------------------------------------- *)
(* The Txn state machine (txnengine): the struct, its five components and  *)
(* the tasks it hands to its Executor and to the variables                 *)
(* ---------------------------------------------------------------------- *)
AbortBadRead == "AbortBadRead"
Votes        == {Commit, AbortDeadlock, AbortBadRead}

NoBallot == [IsNil |-> TRUE]
NoClock  == "nil"
Clocks   == {"c1", "c2"}

\* msgs.Outcome: a commit with its vector clock, or an abort
OutcomeCommit(clock) == [Which |-> "Commit", Clock |-> clock]
OutcomeAbort         == [Which |-> "Abort", Clock |-> NoClock]
TxnOutcomes          == { OutcomeCommit(c) : c \in Clocks } \cup { OutcomeAbort }

txnDetermineLocalBallots == "txnDetermineLocalBallots"
txnAwaitLocalBallots     == "txnAwaitLocalBallots"
txnReceiveOutcome        == "txnReceiveOutcome"
txnAwaitLocallyComplete  == "txnAwaitLocallyComplete"
txnReceiveCompletion     == "txnReceiveCompletion"
NoState                  == "nil"

\* the call made on the Txn last: its name, the action it is for, its outcome
TxnCall(op, idx, outcome) == [op |-> op, idx |-> idx, outcome |-> outcome]

NoTxnCall == TxnCall("", 0, OutcomeAbort)

\* what a variable's executor holds for one local action: the position of
\* its vote inside voteCast, voteCast's argument and result, and whether its
\* frame has still to report LocallyComplete, and the state the Txn was in
\* when it did
NewVar ==
  [ pc |-> "idle", abort |-> FALSE, ret |-> FALSE, outcome |-> "none", lc |-> "no",
    lcAt |-> "" ]

\* the Txn as TxnFromReader leaves it, with n local actions
NewTxn(n) ==
  [ localActions      |-> [ i \in 1..n |-> [ ballot |-> NoBallot, frame |-> FALSE,
                                             outcomeClock |-> NoClock ] ],
    voter             |-> FALSE,
    started           |-> FALSE,
    currentState      |-> NoState,
    pendingVote       |-> 0,
    preAborted        |-> 0,
    preAbortedBool    |-> FALSE,
    outcomeClock      |-> NoClock,
    aborted           |-> FALSE,
    activeFramesCount |-> 0,
    completed         |-> FALSE,
    exe               |-> << >>,    \* tasks queued on the Txn's Executor
    enqueued          |-> << >>,    \* every task ever handed to the Executor
    vars              |-> [ i \in 1..n |-> NewVar ],
    panicked          |-> FALSE,
    states            |-> << >>,    \* every value currentState was assigned
    ballotsOut        |-> << >>,    \* the ballots handed to TxnBallotsComplete
    outcomeCalls      |-> 0,
    completionCalls   |-> 0,
    log               |-> << >>,    \* callbacks and tasks handed to variables
    call              |-> NoTxnCall ]

Note(e, i, c) == [e |-> e, i |-> i, c |-> c]

Logged(t, e, i, c) == [t EXCEPT !.log = Append(@, Note(e, i, c))]

\* how many elements of seq satisfy P
Count(seq, P(_)) == Cardinality({ k \in 1..Len(seq) : P(seq[k]) })

\* how many times the Txn t has made the stateChange callback e
CallbacksOf(t, e) == Count(t.log, LAMBDA x : x.e = e)

\* a stateChange callback into the Proposer
Callback(t, e) == Logged(t, e, 0, "")

TxnPanic(t) == [t EXCEPT !.panicked = TRUE]

SetState(t, st) == [t EXCEPT !.currentState = st, !.states = Append(@, st)]

\* an Executor that runs the function enqueued last first
EnqueueFuncAsync_Front(t, f) ==
  [t EXCEPT !.exe = <<f>> \o @, !.enqueued = Append(@, f)]

\* exe.EnqueueFuncAsync(f)
EnqueueFuncAsync(t, f) ==
  [t EXCEPT !.exe = Append(@, f), !.enqueued = Append(@, f)]

RECURSIVE nextState(_)

\* txnAwaitLocallyComplete.locallyComplete
locallyComplete(t) ==
  IF t.currentState = txnAwaitLocallyComplete
  THEN Callback(nextState(t), "TxnLocallyComplete")
  ELSE t

\* start() calling locallyComplete only for an aborted Txn
AwaitLocallyCompleteStart_AbortOnly(t) ==
  IF t.aborted THEN locallyComplete(t) ELSE t

\* txnAwaitLocallyComplete.start
AwaitLocallyCompleteStart(t) ==
  IF t.aborted \/ t.activeFramesCount = 0 THEN locallyComplete(t) ELSE t

\* nextState moving from ReceiveOutcome straight to ReceiveCompletion
nextState_SkipsAwait(t) ==
  CASE t.currentState = txnDetermineLocalBallots -> SetState(t, txnAwaitLocalBallots)
    [] t.currentState = txnAwaitLocalBallots     -> SetState(t, txnReceiveOutcome)
    [] t.currentState = txnReceiveOutcome        -> SetState(t, txnReceiveCompletion)
    [] t.currentState = txnAwaitLocallyComplete  -> SetState(t, txnReceiveCompletion)
    [] t.currentState = txnReceiveCompletion     -> SetState(t, NoState)
    [] OTHER                                     -> TxnPanic(t)

\* Txn.nextState: the pointer moves, then the new component's start() runs
\* (a no-op except in AwaitLocallyComplete)
nextState(t) ==
  CASE t.currentState = txnDetermineLocalBallots -> SetState(t, txnAwaitLocalBallots)
    [] t.currentState = txnAwaitLocalBallots     -> SetState(t, txnReceiveOutcome)
    [] t.currentState = txnReceiveOutcome        ->
         AwaitLocallyCompleteStart(SetState(t, txnAwaitLocallyComplete))
    [] t.currentState = txnAwaitLocallyComplete  -> SetState(t, txnReceiveCompletion)
    [] t.currentState = txnReceiveCompletion     -> SetState(t, NoState)
    [] OTHER                                     -> TxnPanic(t)

\* the loop of txnDetermineLocalBallots.start: ReceiveTxn goes to each variable
RECURSIVE DispatchReceiveTxn(_, _)
DispatchReceiveTxn(t, idx) ==
  IF idx > Len(t.localActions) THEN t
  ELSE DispatchReceiveTxn(
         Logged([t EXCEPT !.vars[idx].pc = "ReceiveTxn"], "ReceiveTxn", idx, ""),
         idx + 1)

\* txnDetermineLocalBallots.start
DetermineLocalBallotsStart(t) == DispatchReceiveTxn(nextState(t), 1)

\* Start leaving activeFramesCount as it was allocated
Start_NoFrameCount(t, voter) ==
  LET n  == Len(t.localActions)
      t1 == [t EXCEPT !.voter = voter, !.started = TRUE,
                      !.pendingVote = IF voter THEN n ELSE @]
  IN  IF voter
      THEN DetermineLocalBallotsStart(SetState(t1, txnDetermineLocalBallots))
      ELSE SetState(t1, txnReceiveOutcome)

\* Txn.Start(voter): the init() calls, the first state and its start()
Start(t, voter) ==
  LET n  == Len(t.localActions)
      t1 == [t EXCEPT !.voter = voter, !.started = TRUE,
                      !.pendingVote = IF voter THEN n ELSE @,
                      !.activeFramesCount = n]
  IN  IF voter
      THEN DetermineLocalBallotsStart(SetState(t1, txnDetermineLocalBallots))
      ELSE SetState(t1, txnReceiveOutcome)

\* localAction.VoteDeadlock / VoteBadRead / VoteCommit up to the call of
\* voteCast: the ballot is built once; the variable keeps a frame for the
\* action exactly when it votes to commit, and that frame may report
\* LocallyComplete from then on
Vote(t, idx, vote) ==
  IF t.localActions[idx].ballot = NoBallot
  THEN [t EXCEPT !.localActions[idx].ballot = Ballot(idx, vote),
                 !.localActions[idx].frame = (vote = Commit),
                 !.vars[idx].lc = IF vote = Commit THEN "may" ELSE "no",
                 !.vars[idx].pc = "cas",
                 !.vars[idx].abort = (vote # Commit)]
  ELSE [t EXCEPT !.vars[idx].pc = "voted"]

\* voteCast setting preAborted without comparing: every abort vote enqueues
voteCastCAS_NoCompare(t, idx) ==
  IF t.vars[idx].abort
  THEN [t EXCEPT !.preAborted = 1, !.vars[idx].pc = "enqueuePreAbort"]
  ELSE [t EXCEPT !.vars[idx].pc = "load"]

\* voteCast, line 829: abort && atomic.CompareAndSwapInt32(&preAborted, 0, 1)
voteCastCAS(t, idx) ==
  IF t.vars[idx].abort /\ t.preAborted = 0
  THEN [t EXCEPT !.preAborted = 1, !.vars[idx].pc = "enqueuePreAbort"]
  ELSE [t EXCEPT !.vars[idx].pc = "load"]

\* voteCast, line 830
voteCastEnqueuePreAbort(t, idx) ==
  [EnqueueFuncAsync(t, "preAbort") EXCEPT !.vars[idx].pc = "load"]

\* voteCast, line 832
voteCastLoad(t, idx) ==
  [t EXCEPT !.vars[idx].ret = (t.vars[idx].abort \/ t.preAborted = 1),
            !.vars[idx].pc = "add"]

\* voteCast enqueueing the completion one vote early
voteCastAdd_OneEarly(t, idx) ==
  [t EXCEPT !.pendingVote = @ - 1,
            !.vars[idx].pc = IF t.pendingVote - 1 <= 1 THEN "enqueueComplete" ELSE "voted"]

\* voteCast, line 833: atomic.AddInt32(&pendingVote, -1) == 0
voteCastAdd(t, idx) ==
  [t EXCEPT !.pendingVote = @ - 1,
            !.vars[idx].pc = IF t.pendingVote - 1 = 0 THEN "enqueueComplete" ELSE "voted"]

\* voteCast, line 834
voteCastEnqueueComplete(t, idx) ==
  [EnqueueFuncAsync(t, "allTxnBallotsComplete") EXCEPT !.vars[idx].pc = "voted"]

\* the loop of preAbort: a task for each action's variable
RECURSIVE DispatchPreAbort(_, _)
DispatchPreAbort(t, idx) ==
  IF idx > Len(t.localActions) THEN t
  ELSE DispatchPreAbort(Logged(t, "preAbort", idx, ""), idx + 1)

\* preAbort telling the variables without recording that it has run
preAbort_NoFlag(t) ==
  IF t.currentState = txnAwaitLocalBallots /\ ~t.preAbortedBool
  THEN DispatchPreAbort(t, 1)
  ELSE TxnPanic(t)

\* txnAwaitLocalBallots.preAbort
preAbort(t) ==
  IF t.currentState = txnAwaitLocalBallots /\ ~t.preAbortedBool
  THEN DispatchPreAbort([t EXCEPT !.preAbortedBool = TRUE], 1)
  ELSE TxnPanic(t)

\* txnAwaitLocalBallots.allTxnBallotsComplete
allTxnBallotsComplete(t) ==
  IF t.currentState = txnAwaitLocalBallots
  THEN LET t1 == nextState(t)
           ballots == [ idx \in 1..Len(t1.localActions) |-> t1.localActions[idx].ballot ]
       IN  Callback([t1 EXCEPT !.ballotsOut = ballots], "TxnBallotsComplete")
  ELSE TxnPanic(t)

\* the loop of BallotOutcomeReceived: the clock is stamped on each action
\* and its variable is asked ReceiveTxnOutcome
RECURSIVE DispatchReceiveTxnOutcome(_, _)
DispatchReceiveTxnOutcome(t, idx) ==
  IF idx > Len(t.localActions) THEN t
  ELSE DispatchReceiveTxnOutcome(
         Logged([t EXCEPT !.localActions[idx].outcomeClock = t.outcomeClock,
                          !.vars[idx].outcome = "dispatched"],
                "ReceiveTxnOutcome", idx, t.outcomeClock),
         idx + 1)

\* BallotOutcomeReceived dispatching to the variables whatever preAbort did
BallotOutcomeReceived_IgnoresPreAbort(t, outcome) ==
  IF t.outcomeClock # NoClock \/ t.aborted THEN t
  ELSE IF t.currentState # txnReceiveOutcome THEN TxnPanic(t)
  ELSE LET t1 == IF outcome.Which = "Commit"
                 THEN [t EXCEPT !.outcomeClock = outcome.Clock]
                 ELSE [t EXCEPT !.aborted = TRUE]
       IN  DispatchReceiveTxnOutcome(nextState(t1), 1)

\* BallotOutcomeReceived taking every outcome it is handed
BallotOutcomeReceived_Overwrites(t, outcome) ==
  IF t.currentState \notin {txnReceiveOutcome, txnAwaitLocallyComplete,
                            txnReceiveCompletion, NoState}
  THEN TxnPanic(t)
  ELSE IF outcome.Which = "Commit"
       THEN [t EXCEPT !.outcomeClock = outcome.Clock]
       ELSE [t EXCEPT !.aborted = TRUE]

\* BallotOutcomeReceived recording the outcome before it looks at the state
BallotOutcomeReceived_RecordsFirst(t, outcome) ==
  IF t.outcomeClock # NoClock \/ t.aborted THEN t
  ELSE LET t1 == IF outcome.Which = "Commit"
                 THEN [t EXCEPT !.outcomeClock = outcome.Clock]
                 ELSE [t EXCEPT !.aborted = TRUE]
           t2 == nextState(t1)
       IN  IF t.currentState # txnReceiveOutcome THEN TxnPanic(t1)
           ELSE IF t2.preAbortedBool
           THEN IF ~t2.aborted THEN TxnPanic(t2) ELSE t2
           ELSE DispatchReceiveTxnOutcome(t2, 1)

\* txnReceiveOutcome.BallotOutcomeReceived
BallotOutcomeReceived(t, outcome) ==
  IF t.outcomeClock # NoClock \/ t.aborted THEN t
  ELSE IF t.currentState # txnReceiveOutcome THEN TxnPanic(t)
  ELSE LET t1 == IF outcome.Which = "Commit"
                 THEN [t EXCEPT !.outcomeClock = outcome.Clock]
                 ELSE [t EXCEPT !.aborted = TRUE]
           t2 == nextState(t1)
       IN  IF t2.preAbortedBool
           THEN IF ~t2.aborted THEN TxnPanic(t2) ELSE t2
           ELSE DispatchReceiveTxnOutcome(t2, 1)

\* locallyComplete running in whatever state the Txn is in
LocallyComplete_Unguarded(t, idx) ==
  LET result == t.activeFramesCount - 1
      t1     == [t EXCEPT !.activeFramesCount = result, !.vars[idx].lc = "called",
                          !.vars[idx].lcAt = t.currentState]
  IN  IF result = 0 THEN Callback(t1, "TxnLocallyComplete")
      ELSE IF result < 0 THEN TxnPanic(t1)
      ELSE t1

\* txnAwaitLocallyComplete.LocallyComplete, called by the frame of action idx
LocallyComplete(t, idx) ==
  LET result == t.activeFramesCount - 1
      t1     == [t EXCEPT !.activeFramesCount = result, !.vars[idx].lc = "called",
                          !.vars[idx].lcAt = t.currentState]
  IN  IF result = 0 THEN EnqueueFuncAsync(t1, "locallyComplete")
      ELSE IF result < 0 THEN TxnPanic(t1)
      ELSE t1

\* the loop of CompletionReceived: TxnGloballyComplete for each action with a frame
RECURSIVE DispatchTxnGloballyComplete(_, _)
DispatchTxnGloballyComplete(t, idx) ==
  IF idx > Len(t.localActions) THEN t
  ELSE IF ~t.localActions[idx].frame
       THEN DispatchTxnGloballyComplete(t, idx + 1)
       ELSE DispatchTxnGloballyComplete(Logged(t, "TxnGloballyComplete", idx, ""), idx + 1)

\* txnReceiveCompletion.maybeFinish
maybeFinish(t) ==
  IF t.currentState = txnReceiveCompletion /\ t.completed
  THEN Callback(nextState(t), "TxnFinished")
  ELSE t

\* CompletionReceived marking the Txn completed before it looks at the state
CompletionReceived_CompletesFirst(t) ==
  IF t.completed THEN t
  ELSE IF t.currentState # txnReceiveCompletion THEN TxnPanic([t EXCEPT !.completed = TRUE])
  ELSE LET t1 == maybeFinish([t EXCEPT !.completed = TRUE])
       IN  IF t1.aborted THEN t1 ELSE DispatchTxnGloballyComplete(t1, 1)

\* CompletionReceived telling the variables before it finishes the Txn
CompletionReceived_NotifiesFirst(t) ==
  IF t.completed THEN t
  ELSE IF t.currentState # txnReceiveCompletion THEN TxnPanic(t)
  ELSE LET t1 == [t EXCEPT !.completed = TRUE]
       IN  maybeFinish(IF t1.aborted THEN t1 ELSE DispatchTxnGloballyComplete(t1, 1))

\* txnReceiveCompletion.CompletionReceived
CompletionReceived(t) ==
  IF t.completed THEN t
  ELSE IF t.currentState # txnReceiveCompletion THEN TxnPanic(t)
  ELSE LET t1 == maybeFinish([t EXCEPT !.completed = TRUE])
       IN  IF t1.aborted THEN t1 ELSE DispatchTxnGloballyComplete(t1, 1)

\* the second loop of ImmigrationTxnFromCap: each received variable is asked
\* ReceiveTxnOutcome for its action, which carries the variable's own clock
RECURSIVE DispatchImmigrantOutcome(_, _)
DispatchImmigrantOutcome(t, idx) ==
  IF idx > Len(t.localActions) THEN t
  ELSE DispatchImmigrantOutcome(
         Logged([t EXCEPT !.vars[idx].outcome = "dispatched"],
                "ReceiveTxnOutcome", idx, t.localActions[idx].outcomeClock),
         idx + 1)

\* ImmigrationTxnFromCap going through the dispatch loop of BallotOutcomeReceived
ImmigrationTxnFromCap_TxnClock(t, clocks) ==
  LET t1 == [t EXCEPT !.localActions =
                        [ idx \in 1..Len(t.localActions) |->
                            [ t.localActions[idx] EXCEPT !.outcomeClock = clocks[idx] ] ]]
  IN  DispatchReceiveTxnOutcome(nextState(Start(t1, FALSE)), 1)

\* ImmigrationTxnFromCap: one local action per received variable, stamped
\* with the clock of the variable's write txn; then Start(false), nextState()
\* and the dispatch
ImmigrationTxnFromCap(t, clocks) ==
  LET t1 == [t EXCEPT !.localActions =
                        [ idx \in 1..Len(t.localActions) |->
                            [ t.localActions[idx] EXCEPT !.outcomeClock = clocks[idx] ] ]]
  IN  DispatchImmigrantOutcome(nextState(Start(t1, FALSE)), 1)

\* the Executor runs the function at the head of its queue
RunTask(t, f) ==
  CASE f = "preAbort"              -> preAbort(t)
    [] f = "allTxnBallotsComplete" -> allTxnBallotsComplete(t)
    [] f = "locallyComplete"       -> locallyComplete(t)

(* ---------------------------------------------------------------------- *)
(* The debugger's gui: its column list and its view of the selected rows   *)
(* ---------------------------------------------------------------------- *)
\* the names of the columns, as rows.AllColumns() gives them
AllColumns == << "ts", "msg", "txn" >>

\* a Column; Width and XStart are set by Layout alone
Column(name, displayed, selected) ==
  [ Name |-> name, Displayed |-> displayed, Selected |-> selected ]

\* the gui before a file is loaded. Columns are indexed from 1 here and from
\* 0 in the code; from and highlight index the rows from 0 as the code does.
\* A row is the set of its keys.
NoGui ==
  [ Columns |-> << >>, Selected |-> << >>, from |-> 0, highlight |-> 0, height |-> 0 ]

\* the first displayed column at idx or to its right, or 0
RECURSIVE DisplayedRight(_, _)
DisplayedRight(cs, idx) ==
  IF idx > Len(cs) THEN 0
  ELSE IF cs[idx].Displayed THEN idx
  ELSE DisplayedRight(cs, idx + 1)

\* the first displayed column at idx or to its left, or 0
RECURSIVE DisplayedLeft(_, _)
DisplayedLeft(cs, idx) ==
  IF idx < 1 THEN 0
  ELSE IF cs[idx].Displayed THEN idx
  ELSE DisplayedLeft(cs, idx - 1)

\* Columns.ToggleDisplayed
ToggleDisplayed(cs, idx) ==
  LET c1 == [cs EXCEPT ![idx].Displayed = ~@]
  IN  IF ~cs[idx].Selected THEN c1
      ELSE LET c2    == [c1 EXCEPT ![idx].Selected = FALSE]
               right == DisplayedRight(c2, idx + 1)
               left  == DisplayedLeft(c2, idx - 1)
           IN  IF right # 0 THEN [c2 EXCEPT ![right].Selected = TRUE]
               ELSE IF left # 0 THEN [c2 EXCEPT ![left].Selected = TRUE]
               ELSE [c2 EXCEPT ![idx].Displayed = TRUE, ![idx].Selected = TRUE]

\* the loop of Columns.Left; left is the displayed column seen last, 0 for nil
RECURSIVE LeftLoop(_, _, _)
LeftLoop(cs, idx, left) ==
  IF idx > Len(cs) THEN cs
  ELSE IF ~cs[idx].Displayed THEN LeftLoop(cs, idx + 1, left)
  ELSE IF left # 0 /\ cs[idx].Selected
       THEN [cs EXCEPT ![idx].Selected = FALSE, ![left].Selected = TRUE]
       ELSE LeftLoop(cs, idx + 1, idx)

Left(cs) == LeftLoop(cs, 1, 0)

\* the loop of Columns.Right
RECURSIVE RightLoop(_, _, _)
RightLoop(cs, idx, left) ==
  IF idx > Len(cs) THEN cs
  ELSE IF ~cs[idx].Displayed THEN RightLoop(cs, idx + 1, left)
  ELSE IF left # 0 /\ cs[left].Selected
       THEN [cs EXCEPT ![left].Selected = FALSE, ![idx].Selected = TRUE]
       ELSE RightLoop(cs, idx + 1, idx)

Right(cs) == RightLoop(cs, 1, 0)

\* ColumnSelector.ShowAll
ShowAll(cs) == [ idx \in 1..Len(cs) |-> [ cs[idx] EXCEPT !.Displayed = TRUE ] ]

\* zeros[idx] of HideEmpty: how many of the rows have the key
KeyCount(rows, name) == Cardinality({ k \in 1..Len(rows) : name \in rows[k] })

\* the second loop of HideEmpty
RECURSIVE HideEmptyLoop(_, _, _, _, _)
HideEmptyLoop(cs, rows, idx, oldSelectedIdx, selectedNeeded) ==
  IF idx > Len(cs)
  THEN [ cs |-> cs, oldSelectedIdx |-> oldSelectedIdx, selectedNeeded |-> selectedNeeded ]
  ELSE IF KeyCount(rows, cs[idx].Name) = 0
       THEN HideEmptyLoop([cs EXCEPT ![idx].Displayed = FALSE, ![idx].Selected = FALSE],
                          rows, idx + 1,
                          IF cs[idx].Selected THEN idx ELSE oldSelectedIdx,
                          selectedNeeded)
       ELSE IF cs[idx].Displayed /\ selectedNeeded
            THEN HideEmptyLoop([cs EXCEPT ![idx].Selected = TRUE],
                               rows, idx + 1, oldSelectedIdx, FALSE)
            ELSE HideEmptyLoop(cs, rows, idx + 1, oldSelectedIdx, selectedNeeded)

\* ColumnSelector.HideEmpty: selectedNeeded starts false and nothing sets it
HideEmpty(cs, rows) ==
  LET r    == HideEmptyLoop(cs, rows, 1, 1, FALSE)
      left == DisplayedLeft(r.cs, r.oldSelectedIdx - 1)
  IN  IF r.selectedNeeded /\ left # 0
      THEN [r.cs EXCEPT ![left].Selected = TRUE]
      ELSE r.cs

\* RowsGui.Down
Down(g) ==
  LET highlight == g.highlight + 1
      to0       == g.height + g.from
      to        == IF to0 > Len(g.Selected) THEN Len(g.Selected) ELSE to0
  IN  IF highlight >= to
      THEN IF to < Len(g.Selected)
           THEN [g EXCEPT !.highlight = highlight, !.from = @ + 1]
           ELSE g
      ELSE [g EXCEPT !.highlight = highlight]

\* RowsGui.Up
Up(g) ==
  LET highlight == g.highlight - 1
  IN  IF highlight < g.from
      THEN IF highlight >= 0
           THEN [g EXCEPT !.highlight = highlight, !.from = @ - 1]
           ELSE g
      ELSE [g EXCEPT !.highlight = highlight]

\* Go's integer division, which truncates towards zero
Quot(a, b) == IF a >= 0 THEN a \div b ELSE -((-a) \div b)

\* height--; height /= 2; if height == 0 { height = 1 }
PageSteps(height) ==
  LET h == Quot(height - 1, 2) IN IF h = 0 THEN 1 ELSE h

\* RowsGui.PageDown and its loop
RECURSIVE PageDownLoop(_, _)
PageDownLoop(g, height) ==
  IF height > 0 THEN PageDownLoop(Down(g), height - 1) ELSE g

PageDown(g) == PageDownLoop(g, PageSteps(g.height))

\* RowsGui.PageUp and its loop
RECURSIVE PageUpLoop(_, _)
PageUpLoop(g, height) ==
  IF height > 0 THEN PageUpLoop(Up(g), height - 1) ELSE g

PageUp(g) == PageUpLoop(g, PageSteps(g.height))

\* what the acceptors of a txn have decided: nothing yet
NoDecision == [Which |-> "none", Clock |-> NoClock]

\* the txn the cluster votes on: two voters and a passive learner with an
\* action each; the local actions of each RM in it, and whether the RM votes
ClusterBody ==
  TxnBody(2, << Allocation(RMId, BootCount, <<1>>), Allocation(2, 1, <<2>>),
                Allocation(3, 0, <<3>>) >>)

ClusterActions(rm) == Len(AllocForRMId(ClusterBody, rm).ActionIndices)

ClusterVoter(rm) == AllocForRMId(ClusterBody, rm).Active # 0

\* no RM has heard of the txn
NoCluster ==
  [ txn |-> [ rm \in RMIds |-> NewTxn(ClusterActions(rm)) ],
    decided |-> NoDecision,
    oneBs |-> 0 ]

(* ---------------------------------------------------------------------- *)
(* Actions: one per handler run on the Executor                            *)
(* ---------------------------------------------------------------------- *)
Call(op, txnId, sender, rmId, outcome, events) ==
  [ op |-> op, txnId |-> txnId, sender |-> sender, rmId |-> rmId,
    outcome |-> outcome, events |-> events ]

NoCall == Call("", 0, 0, 0, "", << >>)

WithinBounds(s) ==
  /\ \A k \in DOMAIN s.live : s.live[k] <= MaxLive
  /\ Len(s.sent) <= MaxSent
  /\ \A t \in DOMAIN s.proposers : Len(s.proposers[t].outcomes) <= MaxOutcomes

\* the handler's result becomes the manager's state
Install(s, call) ==
  /\ WithinBounds(s)
  /\ proposers' = s.proposers
  /\ proposals' = s.proposals
  /\ live' = s.live
  /\ topology' = s.topology
  /\ sent' = s.sent
  /\ crashed' = s.crashed
  /\ last' = [call EXCEPT !.events = s.events]
  /\ UNCHANGED << txns, localTxn, computed, cluster, gui >>

Alive == ~crashed /\ ~terminated /\ running = 0

RecvTxn(sender, txnId) ==
  /\ Alive
  /\ Install(TxnReceived(Cur, sender, TxnReader(txnId)),
             Call("TxnReceived", txnId, sender, 0, "", << >>))
  /\ UNCHANGED topoVars

RecvOneB(sender, txnId, rmId) ==
  /\ Alive
  /\ Install(OneBTxnVotesReceived(Cur, sender, txnId, rmId),
             Call("OneBTxnVotesReceived", txnId, sender, rmId, "", << >>))
  /\ UNCHANGED topoVars

RecvTwoBFailures(sender, txnId, rmId) ==
  /\ Alive
  /\ Install(TwoBFailuresReceived(Cur, sender, txnId, rmId),
             Call("TwoBFailures", txnId, sender, rmId, "", << >>))
  /\ UNCHANGED topoVars

RecvTwoBOutcome(sender, txnId, outcome) ==
  /\ Alive
  /\ Install(TwoBOutcomeReceived(Cur, sender, txnId, TxnReader(txnId), outcome),
             Call("TwoBOutcome", txnId, sender, 0, outcome, << >>))
  /\ UNCHANGED topoVars

RecvTGC(sender, txnId) ==
  /\ Alive
  /\ Install(TxnGloballyCompleteReceived(Cur, sender, txnId),
             Call("TxnGloballyCompleteReceived", txnId, sender, 0, "", << >>))
  /\ UNCHANGED topoVars

RecvTSA(sender, txnId) ==
  /\ Alive
  /\ Install(TxnSubmissionAbortReceived(Cur, sender, txnId),
             Call("TxnSubmissionAbortReceived", txnId, sender, 0, "", << >>))
  /\ UNCHANGED topoVars

\* an ActiveVoter Proposer whose Txn has collected its local ballots proposes
\* them for this RM's own instance
ProposerBallotsComplete(txnId) ==
  /\ Alive
  /\ txnId \in DOMAIN proposers
  /\ proposers[txnId].mode = ProposerActiveVoter
  /\ ~proposers[txnId].ballotsComplete
  /\ ~proposers[txnId].outcomeKnown
  /\ LET txn     == TxnReader(txnId)
         alloc   == AllocForRMId(txn.Txn, RMId)
         ballots == IF alloc = NoAlloc THEN << >>
                    ELSE [ idx \in 1..Len(alloc.ActionIndices) |->
                             Ballot(txn.Txn.Actions[alloc.ActionIndices[idx]], Commit) ]
         s1 == NewPaxosProposals(Cur, txn, txn.Txn.FInc, ballots,
                                 GetAcceptorsFromTxn(txn.Txn), RMId, TRUE)
         s2 == [s1 EXCEPT !.proposers[txnId].ballotsComplete = TRUE]
     IN  Install(s2, Call("NewPaxosProposals", txnId, 0, RMId, "", << >>))
  /\ UNCHANGED topoVars

\* a live proposal of the txn finds the voter rmId absent and opens an abort
\* instance on its behalf
ProposalAbortInstance(txnId, fromRm, rmId) ==
  /\ Alive
  /\ InstId(txnId, fromRm) \in DOMAIN proposals
  /\ rmId # RMId
  /\ LET txn  == TxnReader(txnId)
         from == proposals[InstId(txnId, fromRm)]
         alloc == AllocForRMId(txn.Txn, rmId)
     IN  /\ alloc # NoAlloc
         /\ alloc.Active # 0
         /\ \A k \in 1..Len(from.abortInstances) : from.abortInstances[k] # rmId
         /\ LET s1 == [Cur EXCEPT !.proposals[InstId(txnId, fromRm)].abortInstances = Append(@, rmId)]
                s2 == NewPaxosProposals(s1, txn, txn.Txn.FInc,
                                        MakeAbortBallots(txn, alloc).ballots,
                                        GetAcceptorsFromTxn(txn.Txn), rmId, FALSE)
            IN  Install(s2, Call("NewPaxosProposals", txnId, 0, rmId, "", << >>))
  /\ UNCHANGED topoVars

\* the Proposer has learnt the outcome and stops its proposals
ProposerOutcomeDetermined(txnId) ==
  /\ Alive
  /\ txnId \in DOMAIN proposers
  /\ Len(proposers[txnId].outcomes) > 0
  /\ ~proposers[txnId].outcomeKnown
  /\ LET s1 == [Cur EXCEPT !.proposers[txnId].outcomeKnown = TRUE]
     IN  Install(FinishProposers(s1, txnId),
                 Call("FinishProposers", txnId, 0, 0, "", << >>))
  /\ UNCHANGED topoVars

\* the Proposer has completed and removes itself
ProposerFinished(txnId) ==
  /\ Alive
  /\ txnId \in DOMAIN proposers
  /\ proposers[txnId].outcomeKnown
  /\ Install(TxnFinished(Cur, txnId), Call("TxnFinished", txnId, 0, 0, "", << >>))
  /\ UNCHANGED topoVars

\* a TopologyChanged task that ran to completion
TopologyChangedTask(topo) ==
  /\ Alive
  /\ topo # topology
  /\ Install(TopologyTask(Cur, topo), Call("TopologyChanged", 0, 0, 0, "", << >>))
  /\ UNCHANGED topoVars


Init ==
  /\ txns \in [TxnIds -> TxnBodies]
  /\ proposers = EmptyMap
  /\ proposals = EmptyMap
  /\ live = [k \in InstIds |-> 0]
  /\ topology = NoTopology
  /\ sent = << >>
  /\ crashed = FALSE
  /\ last = NoCall
  /\ exeQueue = << >>
  /\ running = 0
  /\ terminated = FALSE
  /\ calls = << >>
  /\ localTxn = NewTxn(0)
  /\ computed = NoComputed
  /\ cluster = NoCluster
  /\ gui = NoGui

Next ==
  \/ \E sender \in OtherRMs, txnId \in TxnIds : RecvTxn(sender, txnId)
  \/ \E sender \in OtherRMs, txnId \in TxnIds, outcome \in Outcomes : RecvTwoBOutcome(sender, txnId, outcome)
  \/ \E txnId \in TxnIds : ProposerBallotsComplete(txnId)
  \/ \E txnId \in TxnIds, fromRm \in RMIds, rmId \in OtherRMs : ProposalAbortInstance(txnId, fromRm, rmId)
  \/ \E txnId \in TxnIds : ProposerOutcomeDetermined(txnId)
  \/ \E txnId \in TxnIds : ProposerFinished(txnId)
  \/ \E topo \in Topologies : TopologyChangedTask(topo)

Spec == Init /\ [][Next]_vars

\* the manager together with the messages it only routes
NextRouting ==
  \/ Next
  \/ \E sender \in RoutedSenders, txnId \in TxnIds, rmId \in RMIds : RecvOneB(sender, txnId, rmId)
  \/ \E sender \in RoutedSenders, txnId \in TxnIds, rmId \in RMIds : RecvTwoBFailures(sender, txnId, rmId)
  \/ \E sender \in RoutedSenders, txnId \in TxnIds : RecvTGC(sender, txnId)
  \/ \E sender \in RoutedSenders, txnId \in TxnIds : RecvTSA(sender, txnId)

SpecRouting == Init /\ [][NextRouting]_vars

\* a late ballot of the txn is handed to one of its instances
LateBallots == { << Ballot("z", AbortDeadlock) >> }

ProposerAddBallots(txnId, ballots, rmId) ==
  /\ Alive
  /\ txnId \in DOMAIN proposers
  /\ Install(AddToPaxosProposals(Cur, txnId, ballots, rmId),
             Call("AddToPaxosProposals", txnId, 0, rmId, "", << >>))
  /\ UNCHANGED topoVars

\* the manager with the calls that open, feed and reap the instances of a
\* txn whose other voters are both active
InitFinish ==
  /\ Init
  /\ txns \in [TxnIds -> {TxnBody(2, AllocStale), TxnBody(2, AllocVoter)}]

NextFinish ==
  \/ Next
  \/ \E txnId \in TxnIds, ballots \in LateBallots, rmId \in RMIds :
       ProposerAddBallots(txnId, ballots, rmId)

SpecFinish == InitFinish /\ [][NextFinish]_vars

(* ---------------------------------------------------------------------- *)
(* TopologyChanged: the caller, the enqueued task and the watcher          *)
(* goroutine, with an Executor that runs one task at a time and raises     *)
(* its terminated signal only between tasks                                *)
(* ---------------------------------------------------------------------- *)
pmUnchanged == UNCHANGED << txns, proposers, proposals, live, topology, sent, crashed, localTxn, computed, cluster, gui >>

Step(op) == last' = Call(op, 0, 0, 0, "", << >>)

\* TopologyChanged(topology, done): Enqueue fails iff the Executor has
\* terminated; then done(false) is called at once, else the watcher starts
TopologyChanged(topo) ==
  /\ ~crashed
  /\ Len(calls) < MaxCalls
  /\ IF ~terminated
     THEN /\ exeQueue' = Append(exeQueue, Len(calls) + 1)
          /\ calls' = Append(calls, [ topology |-> topo, resultClosed |-> FALSE,
                                      watcher |-> "select", dones |-> << >> ])
     ELSE /\ exeQueue' = exeQueue
          /\ calls' = Append(calls, [ topology |-> topo, resultClosed |-> FALSE,
                                      watcher |-> "none", dones |-> <<FALSE>> ])
  /\ Step("TopologyChanged")
  /\ pmUnchanged
  /\ UNCHANGED << running, terminated >>

\* the Executor takes the task: the topology is stored, every Proposer is
\* told, and resultChan is closed
ExeRunTask ==
  /\ ~crashed /\ ~terminated /\ running = 0
  /\ exeQueue # << >>
  /\ LET c == Head(exeQueue)
         s == TopologyTask(Cur, calls[c].topology)
     IN  /\ topology' = s.topology
         /\ proposers' = s.proposers
         /\ calls' = [calls EXCEPT ![c].resultClosed = TRUE]
         /\ running' = c
  /\ exeQueue' = Tail(exeQueue)
  /\ Step("TopologyTask")
  /\ UNCHANGED << txns, proposals, live, sent, crashed, terminated, localTxn, computed, cluster, gui >>

\* the task ends with done(true)
ExeTaskDone ==
  /\ ~crashed /\ running # 0
  /\ calls' = [calls EXCEPT ![running].dones = Append(@, TRUE)]
  /\ running' = 0
  /\ Step("done(true)")
  /\ pmUnchanged
  /\ UNCHANGED << exeQueue, terminated >>

\* the Executor terminates; tasks still queued never run
ExeTerminate ==
  /\ ~crashed /\ ~terminated /\ running = 0
  /\ terminated' = TRUE
  /\ Step("Terminate")
  /\ pmUnchanged
  /\ UNCHANGED << exeQueue, running, calls >>

\* the watcher's outer select: either ready case may be taken
WatcherSelect(c) ==
  /\ ~crashed
  /\ c \in 1..Len(calls)
  /\ calls[c].watcher = "select"
  /\ \/ /\ calls[c].resultClosed
        /\ calls' = [calls EXCEPT ![c].watcher = "exit"]
     \/ /\ terminated
        /\ calls' = [calls EXCEPT ![c].watcher = "terminated"]
  /\ Step("select")
  /\ pmUnchanged
  /\ UNCHANGED << exeQueue, running, terminated >>

\* the watcher calling done(false) on termination without looking at resultChan
WatcherTerminated_NoRecheck(c) ==
  /\ ~crashed
  /\ c \in 1..Len(calls)
  /\ calls[c].watcher = "terminated"
  /\ calls' = [calls EXCEPT ![c].watcher = "exit", ![c].dones = Append(@, FALSE)]
  /\ Step("select terminated")
  /\ pmUnchanged
  /\ UNCHANGED << exeQueue, running, terminated >>

\* the watcher's inner select after <-terminated: done(false) unless
\* resultChan is closed
WatcherTerminated(c) ==
  /\ ~crashed
  /\ c \in 1..Len(calls)
  /\ calls[c].watcher = "terminated"
  /\ IF calls[c].resultClosed
     THEN calls' = [calls EXCEPT ![c].watcher = "exit"]
     ELSE calls' = [calls EXCEPT ![c].watcher = "exit", ![c].dones = Append(@, FALSE)]
  /\ Step("select terminated")
  /\ pmUnchanged
  /\ UNCHANGED << exeQueue, running, terminated >>

\* the manager when the topology is published: no Proposer yet, or the
\* Proposer of a txn received while the topology was unknown
InitTopo ==
  /\ txns = [t \in TxnIds |-> TxnBody(2, AllocVoter)]
  /\ proposers \in
       { EmptyMap,
         [ t \in TxnIds |->
             ProposerStart(NewProposer([Id |-> t, Txn |-> TxnBody(2, AllocVoter)],
                                       ProposerActiveVoter, NoTopology)) ] }
  /\ proposals = EmptyMap
  /\ live = [k \in InstIds |-> 0]
  /\ topology = NoTopology
  /\ sent = << >>
  /\ crashed = FALSE
  /\ last = NoCall
  /\ exeQueue = << >>
  /\ running = 0
  /\ terminated = FALSE
  /\ calls = << >>
  /\ localTxn = NewTxn(0)
  /\ computed = NoComputed
  /\ cluster = NoCluster
  /\ gui = NoGui

NextTopo ==
  \/ \E topo \in Topologies : TopologyChanged(topo)
  \/ ExeRunTask
  \/ ExeTaskDone
  \/ ExeTerminate
  \/ \E c \in 1..MaxCalls : WatcherSelect(c)
  \/ \E c \in 1..MaxCalls : WatcherTerminated(c)

\* the Executor runs the tasks it holds and goroutines are scheduled
FairTopo ==
  /\ WF_vars(ExeRunTask)
  /\ WF_vars(ExeTaskDone)
  /\ \A c \in 1..MaxCalls : WF_vars(WatcherSelect(c)) /\ WF_vars(WatcherTerminated(c))

SpecTopo == InitTopo /\ [][NextTopo]_vars /\ FairTopo

(* ---------------------------------------------------------------------- *)
(* The Txn with its Executor, the variables' executors that vote and       *)
(* report, and the Proposer that hands it outcomes and completions         *)
(* ---------------------------------------------------------------------- *)
TxnLive == localTxn.started /\ ~localTxn.panicked

TxnActions == 1..Len(localTxn.localActions)

\* the Proposer starts the Txn, as a voter or as a learner
TxnStart(voter) ==
  /\ ~localTxn.started
  /\ localTxn' = Start([localTxn EXCEPT !.call = TxnCall("Start", 0, OutcomeAbort)], voter)
  /\ UNCHANGED pmVars

\* the variable of action idx handles ReceiveTxn and votes
VarVote(idx, vote) ==
  /\ TxnLive
  /\ idx \in TxnActions
  /\ localTxn.vars[idx].pc = "ReceiveTxn"
  /\ localTxn' = Vote([localTxn EXCEPT !.call = TxnCall("Vote", idx, OutcomeAbort)], idx, vote)
  /\ UNCHANGED pmVars

VoteCastCAS(idx) ==
  /\ TxnLive
  /\ idx \in TxnActions
  /\ localTxn.vars[idx].pc = "cas"
  /\ localTxn' = voteCastCAS([localTxn EXCEPT !.call = TxnCall("voteCast", idx, OutcomeAbort)], idx)
  /\ UNCHANGED pmVars

VoteCastEnqueuePreAbort(idx) ==
  /\ TxnLive
  /\ idx \in TxnActions
  /\ localTxn.vars[idx].pc = "enqueuePreAbort"
  /\ localTxn' = voteCastEnqueuePreAbort([localTxn EXCEPT !.call = TxnCall("voteCast", idx, OutcomeAbort)], idx)
  /\ UNCHANGED pmVars

VoteCastLoad(idx) ==
  /\ TxnLive
  /\ idx \in TxnActions
  /\ localTxn.vars[idx].pc = "load"
  /\ localTxn' = voteCastLoad([localTxn EXCEPT !.call = TxnCall("voteCast", idx, OutcomeAbort)], idx)
  /\ UNCHANGED pmVars

VoteCastAdd(idx) ==
  /\ TxnLive
  /\ idx \in TxnActions
  /\ localTxn.vars[idx].pc = "add"
  /\ localTxn' = voteCastAdd([localTxn EXCEPT !.call = TxnCall("voteCast", idx, OutcomeAbort)], idx)
  /\ UNCHANGED pmVars

VoteCastEnqueueComplete(idx) ==
  /\ TxnLive
  /\ idx \in TxnActions
  /\ localTxn.vars[idx].pc = "enqueueComplete"
  /\ localTxn' = voteCastEnqueueComplete([localTxn EXCEPT !.call = TxnCall("voteCast", idx, OutcomeAbort)], idx)
  /\ UNCHANGED pmVars

\* the Txn's Executor runs its next queued function
TxnExeRun ==
  /\ TxnLive
  /\ localTxn.exe # << >>
  /\ localTxn' = RunTask([localTxn EXCEPT !.exe = Tail(@),
                                        !.call = TxnCall(Head(localTxn.exe), 0, OutcomeAbort)],
                       Head(localTxn.exe))
  /\ UNCHANGED pmVars

\* the Proposer hands the Txn an outcome, at any time and more than once
RecvBallotOutcome(outcome) ==
  /\ TxnLive
  /\ localTxn.outcomeCalls < MaxOutcomeCalls
  /\ localTxn' = BallotOutcomeReceived(
                   [localTxn EXCEPT !.outcomeCalls = @ + 1,
                                    !.call = TxnCall("BallotOutcomeReceived", 0, outcome)],
                   outcome)
  /\ UNCHANGED pmVars

\* the variable of action idx handles ReceiveTxnOutcome; a learner's
\* variable may or may not give the action a frame
VarReceiveTxnOutcome(idx) ==
  /\ TxnLive
  /\ idx \in TxnActions
  /\ localTxn.vars[idx].outcome = "dispatched"
  /\ \E frame \in BOOLEAN :
       /\ localTxn.aborted => frame = FALSE
       /\ (localTxn.voter /\ ~localTxn.aborted) => frame = localTxn.localActions[idx].frame
       /\ localTxn' = [localTxn EXCEPT !.call = TxnCall("ReceiveTxnOutcome", idx, OutcomeAbort),
                                       !.vars[idx].outcome = "received",
                             !.vars[idx].lc = IF @ = "no" THEN "may" ELSE @,
                             !.localActions[idx].frame = frame]
  /\ UNCHANGED pmVars

\* the variable of action idx reports that the localTxn is applied
VarLocallyComplete(idx) ==
  /\ TxnLive
  /\ idx \in TxnActions
  /\ localTxn.vars[idx].lc = "may"
  /\ localTxn' = LocallyComplete([localTxn EXCEPT !.call = TxnCall("LocallyComplete", idx, OutcomeAbort)], idx)
  /\ UNCHANGED pmVars

\* the Proposer hands the Txn a completion, at any time and more than once
RecvCompletion ==
  /\ TxnLive
  /\ localTxn.completionCalls < MaxCompletionCalls
  /\ localTxn' = CompletionReceived(
                   [localTxn EXCEPT !.completionCalls = @ + 1,
                                    !.call = TxnCall("CompletionReceived", 0, OutcomeAbort)])
  /\ UNCHANGED pmVars

InitTxn ==
  /\ txns = [t \in TxnIds |-> TxnBody(2, AllocVoter)]
  /\ proposers = EmptyMap
  /\ proposals = EmptyMap
  /\ live = [k \in InstIds |-> 0]
  /\ topology = NoTopology
  /\ sent = << >>
  /\ crashed = FALSE
  /\ last = NoCall
  /\ exeQueue = << >>
  /\ running = 0
  /\ terminated = FALSE
  /\ calls = << >>
  /\ localTxn \in { NewTxn(n) : n \in 0..MaxActions }
  /\ computed = NoComputed
  /\ cluster = NoCluster
  /\ gui = NoGui

NextTxn ==
  \/ \E voter \in BOOLEAN : TxnStart(voter)
  \/ \E idx \in 1..MaxActions, vote \in Votes : VarVote(idx, vote)
  \/ \E idx \in 1..MaxActions : VoteCastCAS(idx)
  \/ \E idx \in 1..MaxActions : VoteCastEnqueuePreAbort(idx)
  \/ \E idx \in 1..MaxActions : VoteCastLoad(idx)
  \/ \E idx \in 1..MaxActions : VoteCastAdd(idx)
  \/ \E idx \in 1..MaxActions : VoteCastEnqueueComplete(idx)
  \/ TxnExeRun
  \/ \E outcome \in TxnOutcomes : RecvBallotOutcome(outcome)
  \/ \E idx \in 1..MaxActions : VarReceiveTxnOutcome(idx)
  \/ \E idx \in 1..MaxActions : VarLocallyComplete(idx)
  \/ RecvCompletion

SpecTxn == InitTxn /\ [][NextTxn]_vars

\* every variable votes and reports, the Executor runs what it is handed,
\* and the Proposer delivers an outcome in ReceiveOutcome and a completion
\* in ReceiveCompletion
FairTxn ==
  /\ WF_vars(TxnExeRun)
  /\ \A idx \in 1..MaxActions :
       /\ WF_vars(\E vote \in Votes : VarVote(idx, vote))
       /\ WF_vars(VoteCastCAS(idx))
       /\ WF_vars(VoteCastEnqueuePreAbort(idx))
       /\ WF_vars(VoteCastLoad(idx))
       /\ WF_vars(VoteCastAdd(idx))
       /\ WF_vars(VoteCastEnqueueComplete(idx))
       /\ WF_vars(VarReceiveTxnOutcome(idx))
       /\ WF_vars(VarLocallyComplete(idx))
  /\ WF_vars(\E outcome \in TxnOutcomes :
               localTxn.currentState = txnReceiveOutcome /\ RecvBallotOutcome(outcome))
  /\ WF_vars(localTxn.currentState = txnReceiveCompletion /\ RecvCompletion)

SpecTxnFair == InitTxn /\ [][NextTxn]_vars /\ FairTxn

(* ---------------------------------------------------------------------- *)
(* The manager, the Proposer of a txn and the Proposer's Txn together: the *)
(* same commit outcome arrives any number of times among the txn's other   *)
(* events                                                                  *)
(* ---------------------------------------------------------------------- *)
TheOutcome == OutcomeCommit("c1")

\* TxnFromReader: one local action per action index of this RM's Allocation
LocalActionCount(txnId) ==
  LET alloc == AllocForRMId(txns[txnId], RMId)
  IN  IF alloc = NoAlloc THEN 0 ELSE Len(alloc.ActionIndices)

\* the Txn of the Proposer the handler has just created, if it created one:
\* an ActiveVoter starts its Txn as a voter, a learner as a non-voter
ProposerTxn(s, txnId, op) ==
  IF txnId \in DOMAIN s.proposers /\ txnId \notin DOMAIN proposers
  THEN Start([NewTxn(LocalActionCount(txnId)) EXCEPT !.call = TxnCall(op, 0, OutcomeAbort)],
             s.proposers[txnId].mode = ProposerActiveVoter)
  ELSE localTxn

\* the handler's result becomes the manager's state and t the Txn's
InstallTxn(s, call, t) ==
  /\ \A k \in DOMAIN s.live : s.live[k] <= MaxLive
  /\ Len(s.sent) <= MaxSent
  /\ \A id \in DOMAIN s.proposers : Len(s.proposers[id].outcomes) <= MaxFeeds
  /\ proposers' = s.proposers
  /\ proposals' = s.proposals
  /\ live' = s.live
  /\ topology' = s.topology
  /\ sent' = s.sent
  /\ crashed' = s.crashed \/ t.panicked
  /\ last' = [call EXCEPT !.events = s.events]
  /\ localTxn' = t
  /\ UNCHANGED << txns, computed, cluster, gui, exeQueue, running, terminated, calls >>

\* the txn's body arrives, before anything else is known of the txn
FeedTxn(sender, txnId) ==
  /\ Alive
  /\ ~localTxn.started
  /\ LET s == TxnReceived(Cur, sender, TxnReader(txnId))
     IN  InstallTxn(s, Call("TxnReceived", txnId, sender, 0, "", << >>),
                    ProposerTxn(s, txnId, "Start"))

\* the Txn's TxnBallotsComplete reached the Proposer, which proposes the
\* ballots for this RM's own instance
FeedBallotsComplete(txnId) ==
  /\ Alive
  /\ txnId \in DOMAIN proposers
  /\ proposers[txnId].mode = ProposerActiveVoter
  /\ ~proposers[txnId].ballotsComplete
  /\ CallbacksOf(localTxn, "TxnBallotsComplete") = 1
  /\ LET txn     == TxnReader(txnId)
         alloc   == AllocForRMId(txn.Txn, RMId)
         ballots == [ idx \in 1..Len(localTxn.ballotsOut) |->
                        Ballot(txn.Txn.Actions[alloc.ActionIndices[idx]],
                               localTxn.ballotsOut[idx].Vote) ]
         s1  == NewPaxosProposals(Cur, txn, txn.Txn.FInc, ballots,
                                  GetAcceptorsFromTxn(txn.Txn), RMId, TRUE)
         s2  == [s1 EXCEPT !.proposers[txnId].ballotsComplete = TRUE]
     IN  InstallTxn(s2, Call("NewPaxosProposals", txnId, 0, RMId, "", << >>), localTxn)

\* a 2B with the commit outcome: the manager hands it to the Proposer it
\* finds or creates, and the Proposer to its Txn. The acceptors reach a
\* commit only once this RM's ballots are in, so a voter's Txn is past its
\* voting when the first copy comes.
FeedOutcome(sender, txnId) ==
  /\ Alive
  /\ (txnId \in DOMAIN proposers /\ localTxn.voter)
       => /\ proposers[txnId].ballotsComplete
          /\ localTxn.currentState \notin {txnDetermineLocalBallots, txnAwaitLocalBallots}
  /\ LET s  == TwoBOutcomeReceived(Cur, sender, txnId, TxnReader(txnId), Commit)
         t0 == ProposerTxn(s, txnId, "Start")
         t1 == IF txnId \in DOMAIN s.proposers
               THEN BallotOutcomeReceived(
                      [t0 EXCEPT !.outcomeCalls = @ + 1,
                                 !.call = TxnCall("BallotOutcomeReceived", 0, TheOutcome)],
                      TheOutcome)
               ELSE t0
     IN  InstallTxn(s, Call("TwoBOutcome", txnId, sender, 0, Commit, << >>), t1)

\* the Proposer has learnt the outcome and stops its proposals
FeedOutcomeDetermined(txnId) ==
  /\ Alive
  /\ txnId \in DOMAIN proposers
  /\ Len(proposers[txnId].outcomes) > 0
  /\ ~proposers[txnId].outcomeKnown
  /\ LET s1 == [Cur EXCEPT !.proposers[txnId].outcomeKnown = TRUE]
     IN  InstallTxn(FinishProposers(s1, txnId),
                    Call("FinishProposers", txnId, 0, 0, "", << >>), localTxn)

\* a TGC: the manager hands it to the Proposer if it finds one, the Proposer
\* completes its Txn, and on the Txn's TxnFinished removes itself through
\* the manager's TxnFinished. The acceptors send it only once this RM has
\* reported the txn locally complete.
FeedTGC(sender, txnId) ==
  /\ Alive
  /\ txnId \in DOMAIN proposers
       => /\ localTxn.currentState \in {txnReceiveCompletion, NoState}
          /\ localTxn.completionCalls < MaxCompletionCalls
  /\ LET s1 == TxnGloballyCompleteReceived(Cur, sender, txnId)
         t  == IF txnId \in DOMAIN proposers
               THEN CompletionReceived(
                      [localTxn EXCEPT !.completionCalls = @ + 1,
                                       !.call = TxnCall("CompletionReceived", 0, OutcomeAbort)])
               ELSE localTxn
         s2 == IF CallbacksOf(t, "TxnFinished") > CallbacksOf(localTxn, "TxnFinished")
               THEN TxnFinished(s1, txnId)
               ELSE s1
     IN  InstallTxn(s2, Call("TxnGloballyCompleteReceived", txnId, sender, 0, "", << >>), t)

InitFeed ==
  /\ Init
  /\ txns = [t \in TxnIds |-> TxnBody(2, AllocVoter)]

NextFeed ==
  \/ \E sender \in RoutedSenders, txnId \in TxnIds : FeedTxn(sender, txnId)
  \/ \E idx \in 1..MaxActions : VarVote(idx, Commit)
  \/ \E idx \in 1..MaxActions : VoteCastCAS(idx)
  \/ \E idx \in 1..MaxActions : VoteCastLoad(idx)
  \/ \E idx \in 1..MaxActions : VoteCastAdd(idx)
  \/ \E idx \in 1..MaxActions : VoteCastEnqueueComplete(idx)
  \/ TxnExeRun
  \/ \E txnId \in TxnIds : FeedBallotsComplete(txnId)
  \/ \E sender \in RoutedSenders, txnId \in TxnIds : FeedOutcome(sender, txnId)
  \/ \E txnId \in TxnIds : FeedOutcomeDetermined(txnId)
  \/ \E idx \in 1..MaxActions : VarReceiveTxnOutcome(idx)
  \/ \E idx \in 1..MaxActions : VarLocallyComplete(idx)
  \/ \E sender \in RoutedSenders, txnId \in TxnIds : FeedTGC(sender, txnId)

SpecFeed == InitFeed /\ [][NextFeed]_vars

(* ---------------------------------------------------------------------- *)
(* A Txn built from immigrant variables, with its Executor, the received   *)
(* variables and the owner of its stateChange                              *)
(* ---------------------------------------------------------------------- *)
\* ImmigrationReceived: the Txn is built from the received variables
ImmigrationReceived ==
  /\ ~localTxn.started
  /\ \E clocks \in [ TxnActions -> Clocks ] :
       localTxn' = ImmigrationTxnFromCap(
                     [localTxn EXCEPT !.call = TxnCall("ImmigrationTxnFromCap", 0, OutcomeAbort)],
                     clocks)
  /\ UNCHANGED pmVars

NextImmigration ==
  \/ ImmigrationReceived
  \/ \E idx \in 1..MaxActions : VarReceiveTxnOutcome(idx)
  \/ \E idx \in 1..MaxActions : VarLocallyComplete(idx)
  \/ TxnExeRun
  \/ \E outcome \in TxnOutcomes : RecvBallotOutcome(outcome)
  \/ RecvCompletion

SpecImmigration == InitTxn /\ [][NextImmigration]_vars

(* ---------------------------------------------------------------------- *)
(* GetAcceptorsFromTxn as two proposers call it on the same txn            *)
(* ---------------------------------------------------------------------- *)
\* the Allocations lists of up to MaxAllocations entries, an RM id in each
AllocationLists ==
  UNION { [ 1..n -> { Allocation(rm, 1, << >>) : rm \in RMIds } ] : n \in 0..MaxAllocations }

\* proposer p computes the acceptors of the txn
ComputeAcceptors(p) ==
  /\ computed.acceptors[p] = NotComputed
  /\ computed' = [computed EXCEPT !.acceptors[p] = GetAcceptorsFromTxn(computed.txnCap)]
  /\ UNCHANGED << txns, proposers, proposals, live, topology, sent, crashed, last,
                  exeQueue, running, terminated, calls, localTxn, cluster, gui >>

InitAcceptors ==
  /\ txns = [t \in TxnIds |-> TxnBody(2, AllocVoter)]
  /\ proposers = EmptyMap
  /\ proposals = EmptyMap
  /\ live = [k \in InstIds |-> 0]
  /\ topology = NoTopology
  /\ sent = << >>
  /\ crashed = FALSE
  /\ last = NoCall
  /\ exeQueue = << >>
  /\ running = 0
  /\ terminated = FALSE
  /\ calls = << >>
  /\ localTxn = NewTxn(0)
  /\ computed \in { [NoComputed EXCEPT !.txnCap = [TxnBody(2, allocs) EXCEPT !.FInc = fInc]] :
                      allocs \in AllocationLists, fInc \in 1..MaxFInc }
  /\ cluster = NoCluster
  /\ gui = NoGui

NextAcceptors == \E p \in {1, 2} : ComputeAcceptors(p)

SpecAcceptors == InitAcceptors /\ [][NextAcceptors]_vars

(* ---------------------------------------------------------------------- *)
(* One TxnId at every RM: each voter's Proposer votes through its Txn, the *)
(* acceptors decide once every voter's ballots have reached them, and      *)
(* their 1B and 2B messages reach the RMs in any order and more than once  *)
(* ---------------------------------------------------------------------- *)
clusterUnchanged ==
  UNCHANGED << txns, proposers, proposals, live, topology, sent, crashed, last,
               exeQueue, running, terminated, calls, localTxn, computed, gui >>

ClusterLive(rm) == cluster.txn[rm].started /\ ~cluster.txn[rm].panicked

\* an abort vote is among the ballots the Txn t handed to its Proposer
VotedAbort(t) ==
  \E idx \in 1..Len(t.ballotsOut) : t.ballotsOut[idx].Vote # Commit

\* the outcome in the 2B message an acceptor sends the RM rm: what the
\* acceptors decided
AcceptorOutcome(c, rm) == c.decided

\* TxnReceived at a voter before the acceptors have decided: its Proposer
\* starts its Txn as a voter
ClusterTxnReceived(rm) ==
  /\ ClusterVoter(rm)
  /\ ~cluster.txn[rm].started
  /\ cluster.decided = NoDecision
  /\ cluster' = [cluster EXCEPT !.txn[rm] =
                   Start([@ EXCEPT !.call = TxnCall("Start", 0, OutcomeAbort)], TRUE)]
  /\ clusterUnchanged

\* the variable of action idx at rm handles ReceiveTxn and votes
ClusterVarVote(rm, idx, vote) ==
  /\ ClusterLive(rm)
  /\ idx \in 1..ClusterActions(rm)
  /\ cluster.txn[rm].vars[idx].pc = "ReceiveTxn"
  /\ cluster' = [cluster EXCEPT !.txn[rm] =
                   Vote([@ EXCEPT !.call = TxnCall("Vote", idx, OutcomeAbort)], idx, vote)]
  /\ clusterUnchanged

\* the next step of voteCast for action idx at rm
ClusterVoteCast(rm, idx) ==
  LET t  == [cluster.txn[rm] EXCEPT !.call = TxnCall("voteCast", idx, OutcomeAbort)]
      pc == IF idx \in 1..ClusterActions(rm) THEN t.vars[idx].pc ELSE "idle"
  IN  /\ ClusterLive(rm)
      /\ pc \in {"cas", "enqueuePreAbort", "load", "add", "enqueueComplete"}
      /\ cluster' = [cluster EXCEPT !.txn[rm] =
                       CASE pc = "cas"             -> voteCastCAS(t, idx)
                         [] pc = "enqueuePreAbort" -> voteCastEnqueuePreAbort(t, idx)
                         [] pc = "load"            -> voteCastLoad(t, idx)
                         [] pc = "add"             -> voteCastAdd(t, idx)
                         [] pc = "enqueueComplete" -> voteCastEnqueueComplete(t, idx)]
      /\ clusterUnchanged

\* the Executor of the Txn at rm runs its next queued function
ClusterExeRun(rm) ==
  /\ ClusterLive(rm)
  /\ cluster.txn[rm].exe # << >>
  /\ cluster' = [cluster EXCEPT !.txn[rm] =
                   RunTask([@ EXCEPT !.exe = Tail(@),
                                     !.call = TxnCall(Head(cluster.txn[rm].exe), 0, OutcomeAbort)],
                           Head(cluster.txn[rm].exe))]
  /\ clusterUnchanged

\* the acceptors decide, once: every voter that started has handed over its
\* ballots, and they commit (with some clock) only when every voter has
\* and no ballot is an abort; a voter that never started is aborted for,
\* and from then on learns the outcome without voting
ClusterDecide(outcome) ==
  LET voters == { rm \in RMIds : ClusterVoter(rm) }
      voted  == { rm \in voters : CallbacksOf(cluster.txn[rm], "TxnBallotsComplete") = 1 }
  IN  /\ cluster.decided = NoDecision
      /\ \A rm \in voters : cluster.txn[rm].started => rm \in voted
      /\ (outcome.Which = "Commit")
           <=> (voted = voters /\ \A rm \in voters : ~VotedAbort(cluster.txn[rm]))
      /\ cluster' = [cluster EXCEPT !.decided = outcome]
      /\ clusterUnchanged

\* OneBTxnVotesReceived at rm: the 1B goes to a proposal, or is dropped; no
\* Txn hears of it
ClusterOneB(rm) ==
  /\ cluster.oneBs < MaxOneBs
  /\ cluster' = [cluster EXCEPT !.oneBs = @ + 1]
  /\ clusterUnchanged

\* TwoBTxnVotesReceived taking the outcome of a txn it has no Proposer for
\* as the abort it proposes for it
ClusterTwoB_LearnerAborts(rm) ==
  LET t  == cluster.txn[rm]
      t0 == IF t.started THEN t ELSE Start(t, FALSE)
      outcome == IF t.started THEN AcceptorOutcome(cluster, rm) ELSE OutcomeAbort
  IN  /\ cluster.decided # NoDecision
      /\ ~t.panicked
      /\ t.outcomeCalls < MaxOutcomeCalls
      /\ cluster' = [cluster EXCEPT !.txn[rm] =
                       BallotOutcomeReceived(
                         [t0 EXCEPT !.outcomeCalls = @ + 1,
                                    !.call = TxnCall("BallotOutcomeReceived", 0, outcome)],
                         outcome)]
      /\ clusterUnchanged

\* TwoBTxnVotesReceived at rm with the outcome: the Proposer of the TxnId
\* gets it, or the learner created for it does, and hands it to its Txn
ClusterTwoB(rm) ==
  LET t  == cluster.txn[rm]
      t0 == IF t.started THEN t ELSE Start(t, FALSE)
      outcome == AcceptorOutcome(cluster, rm)
  IN  /\ cluster.decided # NoDecision
      /\ ~t.panicked
      /\ t.outcomeCalls < MaxOutcomeCalls
      /\ cluster' = [cluster EXCEPT !.txn[rm] =
                       BallotOutcomeReceived(
                         [t0 EXCEPT !.outcomeCalls = @ + 1,
                                    !.call = TxnCall("BallotOutcomeReceived", 0, outcome)],
                         outcome)]
      /\ clusterUnchanged

InitCluster == Init

NextCluster ==
  \/ \E rm \in RMIds : ClusterTxnReceived(rm)
  \/ \E rm \in RMIds, idx \in 1..MaxActions, vote \in Votes : ClusterVarVote(rm, idx, vote)
  \/ \E rm \in RMIds, idx \in 1..MaxActions : ClusterVoteCast(rm, idx)
  \/ \E rm \in RMIds : ClusterExeRun(rm)
  \/ \E outcome \in TxnOutcomes : ClusterDecide(outcome)
  \/ \E rm \in RMIds : ClusterOneB(rm)
  \/ \E rm \in RMIds : ClusterTwoB(rm)

SpecCluster == InitCluster /\ [][NextCluster]_vars

(* ---------------------------------------------------------------------- *)
(* The debugger's column list under its key bindings                       *)
(* ---------------------------------------------------------------------- *)
guiUnchanged ==
  UNCHANGED << txns, proposers, proposals, live, topology, sent, crashed, last,
               exeQueue, running, terminated, calls, localTxn, computed, cluster >>

\* the rows a selection can hold: every row has its timestamp, and any of
\* the other keys
KeyRows == { r \in SUBSET { AllColumns[k] : k \in 1..Len(AllColumns) } : AllColumns[1] \in r }

\* a digit or the space bar in the column selector (ColumnSelector.Edit)
GuiToggleDisplayed(idx) ==
  /\ idx \in 1..Len(gui.Columns)
  /\ gui' = [gui EXCEPT !.Columns = ToggleDisplayed(@, idx)]
  /\ guiUnchanged

GuiLeft ==
  /\ gui' = [gui EXCEPT !.Columns = Left(@)]
  /\ guiUnchanged

GuiRight ==
  /\ gui' = [gui EXCEPT !.Columns = Right(@)]
  /\ guiUnchanged

GuiShowAll ==
  /\ gui' = [gui EXCEPT !.Columns = ShowAll(@)]
  /\ guiUnchanged

GuiHideEmpty ==
  /\ gui' = [gui EXCEPT !.Columns = HideEmpty(@, gui.Selected)]
  /\ guiUnchanged

\* one column is selected and it is displayed; the selection holds some rows
InitColumns ==
  /\ txns = [t \in TxnIds |-> TxnBody(2, AllocVoter)]
  /\ proposers = EmptyMap
  /\ proposals = EmptyMap
  /\ live = [k \in InstIds |-> 0]
  /\ topology = NoTopology
  /\ sent = << >>
  /\ crashed = FALSE
  /\ last = NoCall
  /\ exeQueue = << >>
  /\ running = 0
  /\ terminated = FALSE
  /\ calls = << >>
  /\ localTxn = NewTxn(0)
  /\ computed = NoComputed
  /\ cluster = NoCluster
  /\ \E sel \in 1..Len(AllColumns), shown \in SUBSET (1..Len(AllColumns)),
        n \in 1..MaxKeyRows :
       \E rows \in [1..n -> KeyRows] :
         /\ sel \in shown
         /\ gui = [NoGui EXCEPT
                     !.Columns = [ k \in 1..Len(AllColumns) |->
                                     Column(AllColumns[k], k \in shown, k = sel) ],
                     !.Selected = rows]

NextColumns ==
  \/ \E idx \in 1..Len(AllColumns) : GuiToggleDisplayed(idx)
  \/ GuiLeft
  \/ GuiRight
  \/ GuiShowAll
  \/ GuiHideEmpty

SpecColumns == InitColumns /\ [][NextColumns]_vars

(* ---------------------------------------------------------------------- *)
(* The debugger's row view under its key bindings                          *)
(* ---------------------------------------------------------------------- *)
GuiDown ==
  /\ gui' = Down(gui)
  /\ guiUnchanged

GuiUp ==
  /\ gui' = Up(gui)
  /\ guiUnchanged

GuiPageDown ==
  /\ gui' = PageDown(gui)
  /\ guiUnchanged

GuiPageUp ==
  /\ gui' = PageUp(gui)
  /\ guiUnchanged

\* the terminal is resized: Layout gives the row view another height
GuiResize(height) ==
  /\ gui' = [gui EXCEPT !.height = height]
  /\ guiUnchanged

\* a loaded file: every column displayed, the first selected, some rows
\* selected, the first of them highlighted, and a view of any height
InitRows ==
  /\ txns = [t \in TxnIds |-> TxnBody(2, AllocVoter)]
  /\ proposers = EmptyMap
  /\ proposals = EmptyMap
  /\ live = [k \in InstIds |-> 0]
  /\ topology = NoTopology
  /\ sent = << >>
  /\ crashed = FALSE
  /\ last = NoCall
  /\ exeQueue = << >>
  /\ running = 0
  /\ terminated = FALSE
  /\ calls = << >>
  /\ localTxn = NewTxn(0)
  /\ computed = NoComputed
  /\ cluster = NoCluster
  /\ \E n \in 1..MaxRows, height \in 0..MaxHeight :
       gui = [ Columns  |-> [ k \in 1..Len(AllColumns) |-> Column(AllColumns[k], TRUE, k = 1) ],
               Selected |-> [ k \in 1..n |-> { AllColumns[j] : j \in 1..Len(AllColumns) } ],
               from |-> 0, highlight |-> 0, height |-> height ]

NextRows ==
  \/ GuiDown
  \/ GuiUp
  \/ GuiPageDown
  \/ GuiPageUp
  \/ \E height \in 0..MaxHeight : GuiResize(height)

SpecRows == InitRows /\ [][NextRows]_vars

(* ---------------------------------------------------------------------- *)
(* Properties                                                              *)
(* ---------------------------------------------------------------------- *)
Has(events, e) == \E i \in 1..Len(events) : events[i] = e

SelfInst(txnId) == InstId(txnId, RMId)

\* the handler that ran in this step, and whether its txn had a Proposer
\* and a proposal of this RM's own instance when it began
Ran(op)         == last'.op = op
HadProposer     == last'.txnId \in DOMAIN proposers
HasProposerNow  == last'.txnId \in DOMAIN proposers'
MapsUnchanged   == proposers' = proposers /\ proposals' = proposals /\ live' = live

AbortBallotsOf(txnId) ==
  LET txnCap == txns[txnId]
      alloc  == AllocForRMId(txnCap, RMId)
  IN  [ idx \in 1..Len(alloc.ActionIndices) |->
          Ballot(txnCap.Actions[alloc.ActionIndices[idx]], AbortDeadlock) ]

\* C1: at most one started and unfinished Proposal exists per (TxnId, RM id),
\* and a NewPaxosProposals call for a key already in the proposals map
\* neither creates nor starts another instance.
C1_OneInstancePerKey ==
  /\ [](\A k \in InstIds : live[k] <= 1)
  /\ [][ (Ran("NewPaxosProposals") /\ InstId(last'.txnId, last'.rmId) \in DOMAIN proposals)
           => /\ live' = live
              /\ DOMAIN proposals' = DOMAIN proposals
              /\ ~Has(last'.events, "NewProposal")
              /\ ~Has(last'.events, "ProposalStart") ]_vars

C1_Witness ==
  /\ last.op = "NewPaxosProposals"
  /\ ~Has(last.events, "NewProposal")
  /\ live[InstId(last.txnId, last.rmId)] = 1
  /\ \E k \in InstIds : k # InstId(last.txnId, last.rmId) /\ live[k] = 1

\* C2: with a Proposer already in the map, TxnReceived leaves both maps as
\* they are, and an Outcome 2B is delivered to that Proposer and does
\* nothing else: no Proposer is created and no proposal is started.
C2_ExistingProposerOnly ==
  [][ /\ (Ran("TxnReceived") /\ HadProposer)
         => (MapsUnchanged /\ last'.events = << >>)
      /\ (Ran("TwoBOutcome") /\ HadProposer)
         => /\ proposers' = [proposers EXCEPT ![last'.txnId].outcomes =
                               Append(@, last'.outcome)]
            /\ proposals' = proposals
            /\ live' = live
            /\ last'.events = <<"BallotOutcomeReceived">> ]_vars

C2_Witness ==
  /\ last.op = "TxnReceived"
  /\ last.events = << >>
  /\ last.txnId \in DOMAIN proposers
  /\ proposers[last.txnId].mode = ProposerActiveVoter
  /\ Len(proposers[last.txnId].outcomes) > 0

\* the admission test as the claim words it: the txn's version is the
\* current or the next one
C3_ClaimedAccept(topo, sender, txnCap) ==
  \/ topo = NoTopology
  \/ /\ \/ txnCap.TopologyVersion = topo.Version
        \/ (topo.Next # NoTopology /\ txnCap.TopologyVersion = topo.Next.Version)
     /\ sender \notin topo.RMsRemoved
     /\ AllocForRMId(txnCap, RMId) # NoAlloc
     /\ AllocForRMId(txnCap, RMId).Active = BootCount

\* the admission test as amended: the current version counts only while
\* there is no next topology
C3_AmendedAccept(topo, sender, txnCap) ==
  \/ topo = NoTopology
  \/ /\ \/ (topo.Next = NoTopology /\ txnCap.TopologyVersion = topo.Version)
        \/ (topo.Next # NoTopology /\ txnCap.TopologyVersion = topo.Next.Version)
     /\ sender \notin topo.RMsRemoved
     /\ AllocForRMId(txnCap, RMId) # NoAlloc
     /\ AllocForRMId(txnCap, RMId).Active = BootCount

Accepted ==
  /\ HasProposerNow
  /\ proposers'[last'.txnId].mode = ProposerActiveVoter
  /\ proposers'[last'.txnId].started
  /\ last'.events = <<"NewProposer", "ProposerStart">>

\* the reject branch ran: no voter was installed, and the branch either
\* installed a learner or panicked while building the abort ballots
RejectPath ==
  /\ ~(HasProposerNow /\ proposers'[last'.txnId].mode = ProposerActiveVoter)
  /\ \/ crashed'
     \/ (HasProposerNow /\ proposers'[last'.txnId].mode = ProposerActiveLearner)

C4_RejectStartsAbort ==
  [][ (Ran("TxnReceived") /\ ~HadProposer /\ ~Accepted)
        => /\ last'.events = <<"NewProposal", "ProposalStart", "NewProposer", "ProposerStart">>
           /\ SelfInst(last'.txnId) \in DOMAIN proposals'
           /\ proposals'[SelfInst(last'.txnId)].skipPhase1
           /\ proposals'[SelfInst(last'.txnId)].ballots = AbortBallotsOf(last'.txnId)
           /\ live' = [live EXCEPT ![SelfInst(last'.txnId)] = 1]
           /\ proposers'[last'.txnId].mode = ProposerActiveLearner ]_vars

\* C5: a rejected txn never crashes the process; the handler leaves an abort
\* instance and an ActiveLearner Proposer in place.
C5_RejectNeverCrashes ==
  [][ (Ran("TxnReceived") /\ ~HadProposer /\ ~Accepted)
        => /\ ~crashed'
           /\ SelfInst(last'.txnId) \in DOMAIN proposals'
           /\ HasProposerNow
           /\ proposers'[last'.txnId].mode = ProposerActiveLearner ]_vars

\* this RM's Allocation in the txn the handler was given
AllocOfCall == AllocForRMId(txns[last'.txnId], RMId)

\* C6: an Outcome 2B for a txn without a Proposer, where this RM's Allocation
\* has Active > 0, starts a proposal for (txnId, this RM) that does not skip
\* phase 1 and carries the abort ballots, then creates and starts an
\* ActiveLearner Proposer, then delivers the outcome to it, for Commit and
\* for Abort alike.
C6_RecoveringLearner ==
  [][ (Ran("TwoBOutcome") /\ ~HadProposer /\ AllocOfCall # NoAlloc /\ AllocOfCall.Active > 0)
        => /\ last'.events = <<"NewProposal", "ProposalStart", "NewProposer",
                               "ProposerStart", "BallotOutcomeReceived">>
           /\ SelfInst(last'.txnId) \in DOMAIN proposals'
           /\ ~proposals'[SelfInst(last'.txnId)].skipPhase1
           /\ proposals'[SelfInst(last'.txnId)].started
           /\ proposals'[SelfInst(last'.txnId)].ballots = AbortBallotsOf(last'.txnId)
           /\ live' = [live EXCEPT ![SelfInst(last'.txnId)] = 1]
           /\ HasProposerNow
           /\ proposers'[last'.txnId].mode = ProposerActiveLearner
           /\ proposers'[last'.txnId].started
           /\ proposers'[last'.txnId].outcomes = <<last'.outcome>> ]_vars

C6_Witness ==
  /\ last.op = "TwoBOutcome"
  /\ last.outcome = "Commit"
  /\ Has(last.events, "NewProposal")
  /\ last.txnId \in DOMAIN proposers
  /\ proposers[last.txnId].mode = ProposerActiveLearner
  /\ proposers[last.txnId].outcomes = <<"Commit">>

\* C7: a Commit 2B for a txn without a Proposer, where this RM's Allocation
\* has Active = 0, creates a PassiveLearner Proposer, delivers the outcome
\* to it and leaves the proposals map as it is.
C7_PassiveLearner ==
  [][ (Ran("TwoBOutcome") /\ ~HadProposer /\ AllocOfCall # NoAlloc /\ AllocOfCall.Active = 0
         /\ last'.outcome = "Commit")
        => /\ last'.events = <<"NewProposer", "ProposerStart", "BallotOutcomeReceived">>
           /\ HasProposerNow
           /\ proposers'[last'.txnId].mode = ProposerPassiveLearner
           /\ proposers'[last'.txnId].started
           /\ proposers'[last'.txnId].outcomes = <<"Commit">>
           /\ proposals' = proposals
           /\ live' = live
           /\ sent' = sent ]_vars

C7_Witness ==
  /\ last.op = "TwoBOutcome"
  /\ last.txnId \in DOMAIN proposers
  /\ proposers[last.txnId].mode = ProposerPassiveLearner
  /\ proposers[last.txnId].outcomes = <<"Commit">>

\* C8: an Abort 2B for a txn without a Proposer, where this RM's Allocation
\* has Active = 0, creates no Proposer and no proposal and sends exactly one
\* TxnLocallyComplete, to the sender; each further such 2B sends one more.
C8_OneShotTLC ==
  [][ (Ran("TwoBOutcome") /\ ~HadProposer /\ AllocOfCall # NoAlloc /\ AllocOfCall.Active = 0
         /\ last'.outcome = "Abort")
        => /\ MapsUnchanged
           /\ sent' = Append(sent, [Msg |-> [Type |-> "TxnLocallyComplete", TxnId |-> last'.txnId],
                                    To |-> last'.sender])
           /\ last'.events = <<"OneShotSender">> ]_vars

\* two such 2Bs from different senders: two TLCs and still no state
C8_Witness ==
  /\ last.op = "TwoBOutcome"
  /\ last.outcome = "Abort"
  /\ Len(sent) = 2
  /\ sent[1].To # sent[2].To
  /\ proposers = EmptyMap
  /\ proposals = EmptyMap

\* C9: a 1B or a Failures 2B whose instance has no proposal, and a TGC or a
\* TSA whose txn has no Proposer, change nothing, send nothing and raise no
\* error.
C9_StaleIgnored ==
  [][ (\/ (Ran("OneBTxnVotesReceived") \/ Ran("TwoBFailures"))
            /\ InstId(last'.txnId, last'.rmId) \notin DOMAIN proposals
       \/ (Ran("TxnGloballyCompleteReceived") \/ Ran("TxnSubmissionAbortReceived"))
            /\ ~HadProposer)
        => /\ MapsUnchanged
           /\ topology' = topology
           /\ sent' = sent
           /\ crashed' = crashed
           /\ last'.events = << >> ]_vars

\* a late 1B for an instance that is gone while another instance is live
C9_Witness ==
  /\ last.op = "OneBTxnVotesReceived"
  /\ last.events = << >>
  /\ InstId(last.txnId, last.rmId) \notin DOMAIN proposals
  /\ proposals # EmptyMap

\* C10: under every interleaving of the task, the watcher and the
\* Executor's termination, done is invoked for every TopologyChanged call,
\* and never more than once.
C10_DoneExactlyOnce ==
  \A c \in 1..MaxCalls :
    /\ [](c <= Len(calls) => Len(calls[c].dones) <= 1)
    /\ (c <= Len(calls)) ~> (c <= Len(calls) /\ Len(calls[c].dones) = 1)

\* termination raced a queued task: one call answered true, the next false
C10_Witness ==
  /\ Len(calls) = 2
  /\ terminated
  /\ calls[1].dones = <<TRUE>>
  /\ calls[2].dones = <<FALSE>>
  /\ calls[2].watcher = "exit"
  /\ calls[1].watcher = "exit"

\* C11: done(true) is invoked only when the stored topology is the call's
\* topology and every Proposer in the map has been handed it; a call made
\* after the Executor terminated gets done(false) at once and changes neither
\* the stored topology nor any Proposer.
C11_DoneTrueAfterTask ==
  [][ \A c \in 1..Len(calls') :
        /\ (c <= Len(calls) /\ calls'[c].dones = Append(calls[c].dones, TRUE))
             => /\ topology' = calls[c].topology
                /\ \A t \in DOMAIN proposers' : proposers'[t].topology = calls[c].topology
                /\ calls[c].resultClosed
        /\ (c > Len(calls) /\ terminated)
             => /\ calls'[c].dones = <<FALSE>>
                /\ topology' = topology
                /\ proposers' = proposers
                /\ exeQueue' = exeQueue ]_vars

\* one call answered true with a Proposer told, and a later call refused
C11_Witness ==
  /\ Len(calls) = 2
  /\ calls[1].dones = <<TRUE>>
  /\ proposers # EmptyMap
  /\ \A t \in DOMAIN proposers : proposers[t].topology = calls[1].topology
  /\ topology = calls[1].topology
  /\ calls[2].watcher = "none"
  /\ calls[2].dones = <<FALSE>>
  /\ calls[2].topology # calls[1].topology

Callbacks(e) == Count(localTxn.log, LAMBDA x : x.e = e)

Enqueues(f) == Count(localTxn.enqueued, LAMBDA x : x = f)

Chain ==
  << txnDetermineLocalBallots, txnAwaitLocalBallots, txnReceiveOutcome,
     txnAwaitLocallyComplete, txnReceiveCompletion, NoState >>

IsAbortBallot(b) == b # NoBallot /\ b.Vote \in {AbortDeadlock, AbortBadRead}

AcceptedOutcome == localTxn.outcomeClock # NoClock \/ localTxn.aborted

\* C13: the states a Txn has been in are a run of consecutive components of
\* the chain DetermineLocalBallots, AwaitLocalBallots, ReceiveOutcome,
\* AwaitLocallyComplete, ReceiveCompletion, nil, beginning at
\* DetermineLocalBallots for a voter and at ReceiveOutcome for a learner, and
\* the current state is the last of them.
C13_ForwardOnly ==
  LET first == IF localTxn.voter THEN 1 ELSE 3
      done  == Len(localTxn.states)
  IN  /\ localTxn.currentState \in { Chain[k] : k \in 1..6 }
      /\ ~localTxn.started => (done = 0 /\ localTxn.currentState = NoState)
      /\ localTxn.started =>
           /\ done >= 1
           /\ first + done - 1 <= 6
           /\ \A k \in 1..done : localTxn.states[k] = Chain[first + k - 1]
           /\ localTxn.currentState = localTxn.states[done]

C13_Witness ==
  /\ localTxn.voter
  /\ localTxn.states = Chain
  /\ Len(localTxn.localActions) = 2
  /\ ~localTxn.panicked

\* C14: whatever the votes, LocallyComplete calls, repeated outcomes and
\* repeated completions, TxnBallotsComplete is called at most once and
\* TxnLocallyComplete is called at most once.
C14_CallbacksAtMostOnce ==
  /\ Callbacks("TxnBallotsComplete") <= 1
  /\ Callbacks("TxnLocallyComplete") <= 1

\* an aborted voter whose frames all reported after the callback had fired
C14_Witness ==
  /\ Callbacks("TxnBallotsComplete") = 1
  /\ Callbacks("TxnLocallyComplete") = 1
  /\ Len(localTxn.localActions) = 2
  /\ \A idx \in TxnActions : localTxn.vars[idx].lc = "called"
  /\ Enqueues("locallyComplete") = 1
  /\ localTxn.exe = << >>
  /\ localTxn.outcomeCalls = 2
  /\ localTxn.completionCalls = 2
  /\ ~localTxn.panicked

\* C15: a voter that has left AwaitLocalBallots has handed TxnBallotsComplete
\* one ballot per local action, each the ballot of that action, in action
\* order, with pendingVote at 0.
C15_AllBallotsCast ==
  (localTxn.voter /\ Len(localTxn.states) >= 3) =>
    /\ Callbacks("TxnBallotsComplete") = 1
    /\ Len(localTxn.ballotsOut) = Len(localTxn.localActions)
    /\ \A idx \in TxnActions :
         /\ localTxn.ballotsOut[idx] # NoBallot
         /\ localTxn.ballotsOut[idx].VarUUId = idx
         /\ localTxn.ballotsOut[idx] = localTxn.localActions[idx].ballot
         /\ localTxn.vars[idx].pc \in {"enqueueComplete", "voted"}
    /\ localTxn.pendingVote = 0

C15_Witness ==
  /\ localTxn.voter
  /\ localTxn.currentState = txnReceiveOutcome
  /\ Len(localTxn.ballotsOut) = 2
  /\ localTxn.ballotsOut[1].Vote = Commit
  /\ localTxn.ballotsOut[2].Vote = AbortBadRead

\* C16: a voter Txn calls TxnFinished at most once, and, with every variable
\* voting and reporting, an outcome delivered in ReceiveOutcome and a
\* completion delivered in ReceiveCompletion, it calls it eventually unless a
\* fatal protocol violation ends the process first.
C16_FinishedExactlyOnce ==
  /\ [](Callbacks("TxnFinished") <= 1)
  /\ (localTxn.started /\ localTxn.voter)
       ~> (Callbacks("TxnFinished") = 1 \/ localTxn.panicked)

\* C17: once no variable is inside voteCast, preAbort has been enqueued
\* once if some action voted to abort and not at all otherwise; it is never
\* enqueued twice.
C17_PreAbortOnce ==
  /\ Enqueues("preAbort") <= 1
  /\ Enqueues("preAbort") = 1 => \E idx \in TxnActions : IsAbortBallot(localTxn.localActions[idx].ballot)
  /\ (\A idx \in TxnActions : localTxn.vars[idx].pc \in {"idle", "ReceiveTxn", "voted"})
       => Enqueues("preAbort") =
            IF \E idx \in TxnActions : IsAbortBallot(localTxn.localActions[idx].ballot)
            THEN 1 ELSE 0

C17_Witness ==
  /\ Len(localTxn.localActions) = 2
  /\ \A idx \in TxnActions :
       /\ localTxn.vars[idx].pc = "voted"
       /\ localTxn.localActions[idx].ballot.Vote = AbortDeadlock
  /\ Enqueues("preAbort") = 1

\* C18: with preAborted set, the first outcome handed to the Txn in
\* ReceiveOutcome is fatal if it is a commit; if it is an abort the Txn goes
\* through AwaitLocallyComplete to ReceiveCompletion with TxnLocallyComplete
\* called once and no variable asked ReceiveTxnOutcome.
C18_OutcomeAfterPreAbort ==
  [][ ( /\ localTxn'.call.op = "BallotOutcomeReceived"
        /\ localTxn.preAborted = 1
        /\ localTxn.currentState = txnReceiveOutcome
        /\ ~AcceptedOutcome )
      => IF localTxn'.call.outcome.Which = "Commit"
         THEN /\ localTxn'.panicked
              /\ \A k \in 1..Len(localTxn'.log) : localTxn'.log[k].e # "ReceiveTxnOutcome"
         ELSE /\ ~localTxn'.panicked
              /\ localTxn'.aborted
              /\ localTxn'.states = localTxn.states \o
                                      <<txnAwaitLocallyComplete, txnReceiveCompletion>>
              /\ localTxn'.currentState = txnReceiveCompletion
              /\ localTxn'.log = Append(localTxn.log, Note("TxnLocallyComplete", 0, "")) ]_vars

C18_Witness ==
  /\ localTxn.call.op = "BallotOutcomeReceived"
  /\ localTxn.preAborted = 1
  /\ localTxn.aborted
  /\ localTxn.outcomeCalls = 1
  /\ localTxn.currentState = txnReceiveCompletion
  /\ Callbacks("TxnLocallyComplete") = 1
  /\ ~localTxn.panicked

\* C19: if some local action cast an abort ballot, no variable is ever asked
\* ReceiveTxnOutcome with a commit clock.
C19_NoCommitAfterAbortVote ==
  (\E idx \in TxnActions : IsAbortBallot(localTxn.localActions[idx].ballot))
    => \A k \in 1..Len(localTxn.log) :
         ~(localTxn.log[k].e = "ReceiveTxnOutcome" /\ localTxn.log[k].c # NoClock)

\* one action voted to abort, the other to commit, and a commit outcome came
C19_Witness ==
  /\ Len(localTxn.localActions) = 2
  /\ localTxn.localActions[1].ballot # NoBallot
  /\ localTxn.localActions[1].ballot.Vote = Commit
  /\ IsAbortBallot(localTxn.localActions[2].ballot)
  /\ localTxn.call.op = "BallotOutcomeReceived"
  /\ localTxn.call.outcome.Which = "Commit"
  /\ localTxn.outcomeClock # NoClock

\* C20: a BallotOutcomeReceived call on a Txn that has accepted an outcome
\* changes nothing: outcomeClock, aborted and currentState stay, no callback
\* fires, no variable is told, nothing is enqueued and nothing is raised.
C20_LaterOutcomesIgnored ==
  [][ (localTxn'.call.op = "BallotOutcomeReceived" /\ AcceptedOutcome)
      => localTxn' = [localTxn EXCEPT !.call = localTxn'.call,
                                      !.outcomeCalls = @ + 1] ]_vars

\* a conflicting outcome handed to a Txn in its terminal state
C20_Witness ==
  /\ localTxn.call.op = "BallotOutcomeReceived"
  /\ localTxn.outcomeCalls = 2
  /\ localTxn.outcomeClock = "c1"
  /\ localTxn.call.outcome = OutcomeAbort
  /\ localTxn.currentState = NoState
  /\ localTxn.completed
  /\ ~localTxn.panicked

\* C22: CompletionReceived on a Txn in ReceiveCompletion sets completed,
\* moves the Txn to its terminal state and calls TxnFinished; once completed
\* is set a further call changes nothing; in any earlier state the call is
\* fatal, with completed still false and nothing else touched.
C22_CompletionReceived ==
  [][ localTxn'.call.op = "CompletionReceived"
      => IF localTxn.completed
         THEN localTxn' = [localTxn EXCEPT !.call = localTxn'.call,
                                           !.completionCalls = @ + 1]
         ELSE IF localTxn.currentState = txnReceiveCompletion
         THEN /\ localTxn'.completed
              /\ localTxn'.currentState = NoState
              /\ localTxn'.states = Append(localTxn.states, NoState)
              /\ CallbacksOf(localTxn', "TxnFinished") = CallbacksOf(localTxn, "TxnFinished") + 1
              /\ ~localTxn'.panicked
         ELSE localTxn' = [localTxn EXCEPT !.call = localTxn'.call,
                                           !.completionCalls = @ + 1,
                                           !.panicked = TRUE] ]_vars

\* a completion handed twice to a Txn that was in ReceiveCompletion
C22_Witness ==
  /\ localTxn.call.op = "CompletionReceived"
  /\ localTxn.completionCalls = 2
  /\ localTxn.completed
  /\ localTxn.currentState = NoState
  /\ Callbacks("TxnFinished") = 1
  /\ ~localTxn.panicked

\* C23: on entering AwaitLocallyComplete the Txn calls TxnLocallyComplete at
\* once when it is aborted or has no local action, or when every frame has
\* reported already; otherwise it waits. After a commit with n > 0 local
\* actions the callback has fired only if all n frames have called
\* LocallyComplete and activeFramesCount is 0; and a Txn waiting in
\* AwaitLocallyComplete with activeFramesCount at 0 has locallyComplete
\* queued on its Executor, which fires the callback when it runs, whether or
\* not some of the calls came before the Txn entered the state.
C23_LocallyCompleteTiming ==
  /\ [][ (localTxn.currentState = txnReceiveOutcome
            /\ Len(localTxn'.states) > Len(localTxn.states))
         => IF localTxn'.aborted \/ localTxn.activeFramesCount = 0
            THEN /\ localTxn'.states = localTxn.states \o
                                         <<txnAwaitLocallyComplete, txnReceiveCompletion>>
                 /\ CallbacksOf(localTxn', "TxnLocallyComplete") = 1
            ELSE /\ localTxn'.states = Append(localTxn.states, txnAwaitLocallyComplete)
                 /\ CallbacksOf(localTxn', "TxnLocallyComplete") = 0 ]_vars
  /\ [][ (localTxn'.call.op = "locallyComplete"
            /\ localTxn.currentState = txnAwaitLocallyComplete)
         => /\ localTxn'.currentState = txnReceiveCompletion
            /\ localTxn'.log = Append(localTxn.log, Note("TxnLocallyComplete", 0, "")) ]_vars
  /\ []( ( /\ Callbacks("TxnLocallyComplete") = 1
           /\ ~localTxn.aborted
           /\ Len(localTxn.localActions) > 0 )
         => /\ localTxn.activeFramesCount = 0
            /\ \A idx \in TxnActions : localTxn.vars[idx].lc = "called" )
  /\ []( ( /\ localTxn.currentState = txnAwaitLocallyComplete
           /\ localTxn.activeFramesCount = 0
           /\ ~localTxn.panicked )
         => \E k \in 1..Len(localTxn.exe) : localTxn.exe[k] = "locallyComplete" )

\* a committed voter whose first frame reported before the outcome came and
\* whose second frame reported in AwaitLocallyComplete
C23_Witness ==
  /\ Len(localTxn.localActions) = 2
  /\ localTxn.outcomeClock # NoClock
  /\ localTxn.vars[1].lcAt \in {txnAwaitLocalBallots, txnReceiveOutcome}
  /\ localTxn.vars[2].lcAt = txnAwaitLocallyComplete
  /\ localTxn.activeFramesCount = 0
  /\ Callbacks("TxnLocallyComplete") = 1
  /\ localTxn.currentState = txnReceiveCompletion
  /\ ~localTxn.panicked

\* C24: Start leaves activeFramesCount, and for a voter pendingVote, at the
\* number of local actions; from then on neither ever grows nor falls below
\* 0, preAborted never returns from 1 to 0 and completed never returns to
\* false.
C24_MonotonicCounters ==
  /\ [][ (~localTxn.started /\ localTxn'.started)
         => /\ localTxn'.activeFramesCount = Len(localTxn.localActions)
            /\ localTxn'.voter => localTxn'.pendingVote = Len(localTxn.localActions) ]_vars
  /\ [][ localTxn.started
         => /\ localTxn'.pendingVote <= localTxn.pendingVote
            /\ localTxn'.activeFramesCount <= localTxn.activeFramesCount
            /\ localTxn'.preAborted >= localTxn.preAborted
            /\ localTxn.completed => localTxn'.completed ]_vars
  /\ []( /\ localTxn.pendingVote \in 0..Len(localTxn.localActions)
         /\ localTxn.activeFramesCount \in 0..Len(localTxn.localActions)
         /\ localTxn.preAborted \in {0, 1} )

\* a voter whose two actions voted and reported and which was completed
C24_Witness ==
  /\ localTxn.voter
  /\ Len(localTxn.localActions) = 2
  /\ localTxn.pendingVote = 0
  /\ localTxn.activeFramesCount = 0
  /\ localTxn.completed
  /\ ~localTxn.panicked

\* C28: an outcome handed to a Txn that has accepted none and is still in
\* DetermineLocalBallots or AwaitLocalBallots is fatal: the Txn panics with
\* no outcome recorded, in the same state, with no variable told and no
\* callback made.
C28_EarlyOutcomeFatal ==
  [][ ( /\ localTxn'.call.op = "BallotOutcomeReceived"
        /\ ~AcceptedOutcome
        /\ localTxn.currentState \in {txnDetermineLocalBallots, txnAwaitLocalBallots} )
      => localTxn' = [localTxn EXCEPT !.call = localTxn'.call,
                                      !.outcomeCalls = @ + 1,
                                      !.panicked = TRUE] ]_vars

\* a commit handed to a voter one of whose two actions has not voted yet
C28_Witness ==
  /\ localTxn.call.op = "BallotOutcomeReceived"
  /\ localTxn.call.outcome.Which = "Commit"
  /\ localTxn.currentState = txnAwaitLocalBallots
  /\ localTxn.pendingVote = 1
  /\ localTxn.outcomeCalls = 1
  /\ localTxn.panicked
  /\ localTxn.outcomeClock = NoClock

\* C29: the first CompletionReceived of a Txn in ReceiveCompletion calls
\* TxnFinished first and then, after a commit, hands TxnGloballyComplete to
\* the variable of each local action that has a frame, once each and in
\* action order; after an abort it tells no variable. No TxnGloballyComplete
\* is handed out at any other time.
C29_FinishedThenGloballyComplete ==
  /\ [][ ( /\ localTxn'.call.op = "CompletionReceived"
           /\ ~localTxn.completed
           /\ localTxn.currentState = txnReceiveCompletion )
         => LET new    == SubSeq(localTxn'.log, Len(localTxn.log) + 1, Len(localTxn'.log))
                frames == { idx \in TxnActions : localTxn.localActions[idx].frame }
            IN  /\ Len(new) >= 1
                /\ new[1] = Note("TxnFinished", 0, "")
                /\ \A k \in 2..Len(new) :
                     /\ new[k].e = "TxnGloballyComplete"
                     /\ new[k].i \in frames
                     /\ \A l \in 2..Len(new) : k < l => new[k].i < new[l].i
                /\ Len(new) - 1 = IF localTxn.aborted THEN 0 ELSE Cardinality(frames) ]_vars
  /\ [][ ~( /\ localTxn'.call.op = "CompletionReceived"
            /\ ~localTxn.completed
            /\ localTxn.currentState = txnReceiveCompletion )
         => CallbacksOf(localTxn', "TxnGloballyComplete")
              = CallbacksOf(localTxn, "TxnGloballyComplete") ]_vars

\* a committed Txn with two frames, completed twice
C29_Witness ==
  /\ localTxn.completed
  /\ localTxn.completionCalls = 2
  /\ localTxn.outcomeClock # NoClock
  /\ Len(localTxn.localActions) = 2
  /\ Callbacks("TxnGloballyComplete") = 2
  /\ Callbacks("TxnFinished") = 1
  /\ ~localTxn.panicked

\* C30: whatever the interleaving of the variables' voteCast calls, preAbort
\* is enqueued before allTxnBallotsComplete, it runs with the Txn in
\* AwaitLocalBallots and does not panic, and once the Txn has left
\* AwaitLocalBallots preAbortedBool is set exactly when preAborted is 1.
C30_PreAbortBeforeBallotsComplete ==
  /\ [][ localTxn'.call.op = "preAbort"
         => /\ localTxn.currentState = txnAwaitLocalBallots
            /\ ~localTxn.preAbortedBool
            /\ localTxn'.preAbortedBool
            /\ localTxn'.currentState = txnAwaitLocalBallots
            /\ ~localTxn'.panicked ]_vars
  /\ []( \A k, l \in 1..Len(localTxn.enqueued) :
           (localTxn.enqueued[k] = "preAbort" /\ localTxn.enqueued[l] = "allTxnBallotsComplete")
             => k < l )
  /\ []( (localTxn.started
            /\ localTxn.currentState \notin {txnDetermineLocalBallots, txnAwaitLocalBallots})
         => localTxn.preAbortedBool = (localTxn.preAborted = 1) )

\* both actions voted to abort, the second one's vote completing the ballots
\* while the first was still inside voteCast, and the Txn reached
\* ReceiveOutcome
C30_Witness ==
  /\ Len(localTxn.localActions) = 2
  /\ localTxn.preAborted = 1
  /\ localTxn.preAbortedBool
  /\ localTxn.currentState = txnReceiveOutcome
  /\ localTxn.enqueued = <<"preAbort", "allTxnBallotsComplete">>
  /\ IsAbortBallot(localTxn.localActions[1].ballot)
  /\ IsAbortBallot(localTxn.localActions[2].ballot)
  /\ ~localTxn.panicked

(* ---------------------------------------------------------------------- *)
(* Properties of repeated outcomes                                         *)
(* ---------------------------------------------------------------------- *)
\* the Proposers without the record of the outcomes each was handed
ProposersApart(ps) == [ id \in DOMAIN ps |-> [ ps[id] EXCEPT !.outcomes = << >> ] ]

\* C21: a further copy of the commit outcome of a TxnId, arriving at any
\* point after the first, changes nothing: the Proposers, the proposals and
\* their instances stay as they are, and so does the Txn, its state, its
\* callbacks and what it has handed to the variables.
C21_RepeatedOutcomeNoOp ==
  [][ ( /\ localTxn'.call.op = "BallotOutcomeReceived"
        /\ localTxn' # localTxn
        /\ localTxn.outcomeCalls >= 1 )
      => /\ ProposersApart(proposers') = ProposersApart(proposers)
         /\ proposals' = proposals
         /\ live' = live
         /\ sent' = sent
         /\ localTxn' = [localTxn EXCEPT !.call = localTxn'.call,
                                         !.outcomeCalls = @ + 1] ]_vars

(* ---------------------------------------------------------------------- *)
(* Properties of the immigration Txn                                       *)
(* ---------------------------------------------------------------------- *)
NotesOf(e, idx) == { k \in 1..Len(localTxn.log) : localTxn.log[k].e = e /\ localTxn.log[k].i = idx }

\* C25: a Txn built by ImmigrationTxnFromCap is a non-voter that starts in
\* ReceiveOutcome and is never in DetermineLocalBallots or AwaitLocalBallots;
\* no variable is sent ReceiveTxn, no ballot exists, nothing is enqueued for
\* the votes and TxnBallotsComplete is never called; the variable of each
\* action has been asked ReceiveTxnOutcome once, with the clock stamped on
\* that action; and TxnFinished is called only when every action's frame has
\* called LocallyComplete.
C25_ImmigrationSkipsVoting ==
  localTxn.started =>
    /\ ~localTxn.voter
    /\ localTxn.states[1] = txnReceiveOutcome
    /\ \A k \in 1..Len(localTxn.states) :
         localTxn.states[k] \notin {txnDetermineLocalBallots, txnAwaitLocalBallots}
    /\ \A idx \in TxnActions :
         /\ NotesOf("ReceiveTxn", idx) = {}
         /\ localTxn.localActions[idx].ballot = NoBallot
         /\ localTxn.vars[idx].pc = "idle"
         /\ Cardinality(NotesOf("ReceiveTxnOutcome", idx)) = 1
         /\ localTxn.localActions[idx].outcomeClock \in Clocks
         /\ \A k \in NotesOf("ReceiveTxnOutcome", idx) :
              localTxn.log[k].c = localTxn.localActions[idx].outcomeClock
    /\ Enqueues("preAbort") = 0
    /\ Enqueues("allTxnBallotsComplete") = 0
    /\ Callbacks("TxnBallotsComplete") = 0
    /\ Callbacks("TxnFinished") >= 1 =>
         /\ Callbacks("TxnFinished") = 1
         /\ localTxn.activeFramesCount = 0
         /\ \A idx \in TxnActions : localTxn.vars[idx].lc = "called"

\* two immigrant variables with different clocks, both applied, and the Txn
\* finished
C25_Witness ==
  /\ localTxn.call.op = "CompletionReceived"
  /\ Len(localTxn.localActions) = 2
  /\ localTxn.localActions[1].outcomeClock = "c1"
  /\ localTxn.localActions[2].outcomeClock = "c2"
  /\ localTxn.states = <<txnReceiveOutcome, txnAwaitLocallyComplete, txnReceiveCompletion, NoState>>
  /\ Callbacks("TxnFinished") = 1
  /\ ~localTxn.voter
  /\ ~localTxn.panicked

(* ---------------------------------------------------------------------- *)
(* Properties of GetAcceptorsFromTxn                                       *)
(* ---------------------------------------------------------------------- *)
Min(a, b) == IF a <= b THEN a ELSE b

\* C27: for every Allocations list and every fInc of 1 or more, the
\* acceptors a proposer computes are the RM ids of the first
\* min(2 * fInc - 1, number of Allocations) Allocations in declaration
\* order, so two proposers computing them for the same txn agree.
C27_AcceptorsArePrefix ==
  LET allocations == computed.txnCap.Allocations
      n           == Min(2 * computed.txnCap.FInc - 1, Len(allocations))
  IN  /\ \A p \in {1, 2} :
           computed.acceptors[p] # NotComputed =>
             computed.acceptors[p] = [ idx \in 1..n |-> allocations[idx].RmId ]
      /\ (computed.acceptors[1] # NotComputed /\ computed.acceptors[2] # NotComputed)
           => computed.acceptors[1] = computed.acceptors[2]

\* both proposers computed the acceptors of a txn with fInc 1 and three
\* Allocations, two of them of the same RM: one acceptor
C27_Witness ==
  /\ computed.txnCap.FInc = 1
  /\ Len(computed.txnCap.Allocations) = 3
  /\ computed.txnCap.Allocations[1].RmId = computed.txnCap.Allocations[3].RmId
  /\ computed.acceptors[1] = << computed.txnCap.Allocations[1].RmId >>
  /\ computed.acceptors[2] = computed.acceptors[1]

(* ---------------------------------------------------------------------- *)
(* Properties of the outcome at every RM                                   *)
(* ---------------------------------------------------------------------- *)
\* the Txn t has recorded an outcome
Recorded(t) == t.outcomeClock # NoClock \/ t.aborted

C31_NoActionsVoterProceeds ==
  (localTxn.started /\ localTxn.voter /\ Len(localTxn.localActions) = 0)
    ~> ( /\ Callbacks("TxnBallotsComplete") = 1
         /\ localTxn.ballotsOut = << >>
         /\ txnReceiveOutcome \in { localTxn.states[k] : k \in 1..Len(localTxn.states) } )

(* ---------------------------------------------------------------------- *)
(* Properties of voting once                                               *)
(* ---------------------------------------------------------------------- *)
\* C32: this RM votes at most once per TxnId; in particular a TxnReceived
\* that arrives when the Proposer of its TxnId has just finished, its
\* outcome learned, and been removed by TxnFinished is ignored: it creates
\* no ActiveVoter.
C32_VotesOnce ==
  [][ (last.op = "TxnFinished" /\ Ran("TxnReceived") /\ last'.txnId = last.txnId)
        => ~(HasProposerNow /\ proposers'[last'.txnId].mode = ProposerActiveVoter) ]_vars

(* ---------------------------------------------------------------------- *)
(* Properties of an outcome for a txn without a Proposer                   *)
(* ---------------------------------------------------------------------- *)
\* C33: an Outcome 2B for a txn without a Proposer never crashes the
\* manager, whatever the txn's Allocations: it leaves a recovering
\* ActiveLearner with this RM's abort instance, or a PassiveLearner, or
\* nothing but one TxnLocallyComplete sent.
C33_OutcomeNeverCrashes ==
  [][ (Ran("TwoBOutcome") /\ ~HadProposer)
        => /\ ~crashed'
           /\ \/ /\ HasProposerNow
                 /\ proposers'[last'.txnId].mode = ProposerActiveLearner
                 /\ SelfInst(last'.txnId) \in DOMAIN proposals'
              \/ /\ HasProposerNow
                 /\ proposers'[last'.txnId].mode = ProposerPassiveLearner
                 /\ proposals' = proposals
              \/ /\ MapsUnchanged
                 /\ Len(sent') = Len(sent) + 1 ]_vars

(* ---------------------------------------------------------------------- *)
(* Properties of the debugger's gui                                        *)
(* ---------------------------------------------------------------------- *)
\* the columns of the list that are selected, and those displayed
SelectedColumns == { k \in 1..Len(gui.Columns) : gui.Columns[k].Selected }

DisplayedColumns == { k \in 1..Len(gui.Columns) : gui.Columns[k].Displayed }

\* C34: whatever the sequence of ToggleDisplayed, Left, Right, ShowAll and
\* HideEmpty, exactly one column is selected, it is displayed, and so not
\* every column is hidden.
C34_OneSelectedDisplayed ==
  /\ Cardinality(SelectedColumns) = 1
  /\ SelectedColumns \subseteq DisplayedColumns
  /\ DisplayedColumns # {}

\* C35: whatever the sequence of Up, Down, PageUp and PageDown and the
\* height of the view, 0 <= from <= highlight < len(Selected).
C35_HighlightInRange ==
  /\ 0 <= gui.from
  /\ gui.from <= gui.highlight
  /\ gui.highlight < Len(gui.Selected)
====
